---- MODULE Spec2Model ----
(***************************************************************************)
(* Shipment lifecycle engine of af-server (routers/shipments.py,           *)
(* core/constants.py): the status state machine, the status/history        *)
(* co-write over the Quotation, ShipmentOrder and ShipmentWorkFlow kinds,  *)
(* and shipment creation from a bill of lading with its count-id scan.     *)
(*                                                                         *)
(* Two specifications share the state:                                     *)
(*   Spec      - every request handler runs from its first to its last     *)
(*               statement as one action (requests served one at a time);  *)
(*   StepSpec  - handlers run on concurrent workers, one datastore call    *)
(*               (get, put, query) per step, and a handler may stop        *)
(*               between two calls (an exception or a killed instance:     *)
(*               no call of the handlers runs inside a transaction).       *)
(***************************************************************************)
EXTENDS Integers, Sequences, FiniteSets, TLC

\* ------------------------------------------------------------------------
\* Bounds
\* ------------------------------------------------------------------------
\* Requests served in a behaviour of Spec (also the range of the clock).
MaxRequests == 2
\* Requests started in a behaviour of StepSpec.
MaxStepRequests == 2

\* ------------------------------------------------------------------------
\* core/constants.py
\* ------------------------------------------------------------------------
STATUS_DRAFT == 1001
STATUS_DRAFT_REVIEW == 1002
STATUS_CONFIRMED == 2001
STATUS_BOOKING_PENDING == 3001
STATUS_BOOKING_CONFIRMED == 3002
STATUS_DEPARTED == 4001
STATUS_ARRIVED == 4002
STATUS_COMPLETED == 5001
STATUS_CANCELLED == -1

PREFIX_V2_SHIPMENT == "AF-"
PREFIX_V1_SHIPMENT == "AFCQ-"

\* STATUS_LABELS.get(s, str(s))
StatusLabel(s) ==
    CASE s = STATUS_DRAFT -> "Draft"
      [] s = STATUS_DRAFT_REVIEW -> "Pending Review"
      [] s = STATUS_CONFIRMED -> "Confirmed"
      [] s = STATUS_BOOKING_PENDING -> "Booking Pending"
      [] s = STATUS_BOOKING_CONFIRMED -> "Booking Confirmed"
      [] s = STATUS_DEPARTED -> "Departed"
      [] s = STATUS_ARRIVED -> "Arrived"
      [] s = STATUS_COMPLETED -> "Completed"
      [] s = STATUS_CANCELLED -> "Cancelled"
      [] OTHER -> ToString(s)

STATUS_PATH_A == <<1001, 1002, 2001, 3001, 3002, 4001, 4002, 5001>>

STATUS_PATH_B == <<1001, 1002, 2001, 4001, 4002, 5001>>

PATH_A_COMBOS ==
    { <<"EXW", "IMPORT">>,
      <<"FCA", "EXPORT">>, <<"FCA", "IMPORT">>,
      <<"FOB", "EXPORT">>, <<"FOB", "IMPORT">>,
      <<"CFR", "EXPORT">>, <<"CIF", "EXPORT">>, <<"CNF", "EXPORT">>,
      <<"CPT", "EXPORT">>, <<"CIP", "EXPORT">>,
      <<"DAP", "EXPORT">>, <<"DPU", "EXPORT">>, <<"DDP", "EXPORT">> }

\* str.upper().strip() on the classifier spellings the model draws from.
UpperStrip(s) ==
    CASE s = "fob" -> "FOB"
      [] s = "cnf " -> "CNF"
      [] s = "export" -> "EXPORT"
      [] s = "import" -> "IMPORT"
      [] OTHER -> s

get_status_path(incoterm, transaction_type) ==
    IF <<UpperStrip(incoterm), UpperStrip(transaction_type)>> \in PATH_A_COMBOS
    THEN "A" ELSE "B"

get_status_path_list(incoterm, transaction_type) ==
    IF get_status_path(incoterm, transaction_type) = "A"
    THEN STATUS_PATH_A ELSE STATUS_PATH_B

\* ------------------------------------------------------------------------
\* Python list helpers
\* ------------------------------------------------------------------------
\* x in lst
InList(x, lst) == \E i \in 1..Len(lst) : lst[i] = x

\* lst.index(x), 1-based, for x in lst
IndexOf(x, lst) == CHOOSE i \in 1..Len(lst) : lst[i] = x /\ \A j \in 1..(i - 1) : lst[j] # x

MaxOf(S) == CHOOSE m \in S : \A x \in S : x <= m

\* client.put(entity): insert or overwrite the entity under its key
Put(kind, key, entity) ==
    [k \in DOMAIN kind \cup {key} |-> IF k = key THEN entity ELSE kind[k]]

\* ------------------------------------------------------------------------
\* routers/shipments.py - status update, pure parts
\* ------------------------------------------------------------------------
V1_TO_V2(s) ==
    CASE s = 100 -> 2001
      [] s = 110 -> 3002
      [] s = 4110 -> 4001
      [] s = 10000 -> 5001
      [] OTHER -> 0

V1_TO_V2_KEYS == {100, 110, 4110, 10000}

V2_TO_V1(s) ==
    CASE s = 2001 -> 100
      [] s = 3002 -> 110
      [] s = 4001 -> 4110
      [] s = 5001 -> 10000
      [] s = -1 -> -1
      [] OTHER -> 0

V2_TO_V1_KEYS == {2001, 3002, 4001, 5001, -1}

V1_REVERT_MIN_STATUS == 2001

MsgTerminal == "Cannot change status of a completed or cancelled shipment"

MsgV1Revert == "Cannot revert V1 record to pre-booking status"

MsgBooking(incoterm, txn_type) ==
    "Booking statuses not applicable for " \o incoterm \o " " \o txn_type \o " (Path B)"

MsgInvalid(expected_next, new_status) ==
    "Invalid transition: next step is " \o StatusLabel(expected_next) \o " ("
        \o ToString(expected_next) \o "), not " \o ToString(new_status)

MsgFinal == "Already at final status on this path"

MsgBackwards == "Cannot go backwards without revert flag"

\* b. data_version = q_entity.get("data_version") or 1; V1 by prefix or version
IsV1(shipment_id, q_entity) ==
    LET data_version == IF q_entity.data_version = 0 THEN 1 ELSE q_entity.data_version
    IN  shipment_id.prefix = PREFIX_V1_SHIPMENT \/ data_version < 2

\* c. current V2 status of a V1 record, from ShipmentOrder.status
ResolveV1Status(v1_status) ==
    IF v1_status = -1 THEN -1
    ELSE IF v1_status \in V1_TO_V2_KEYS THEN V1_TO_V2(v1_status)
    ELSE IF v1_status \in V2_TO_V1_KEYS THEN v1_status
    ELSE STATUS_CONFIRMED

\* c2. q_entity.get("incoterm_code") or q_entity.get("incoterm") or ""
IncotermOf(q_entity) ==
    IF q_entity.incoterm_code # "" THEN q_entity.incoterm_code ELSE q_entity.incoterm

\* Weakened variant of the terminal guard: protects a completed shipment only.
TerminalGuardCompletedOnly(current_status, reverted) ==
    IF ~reverted /\ current_status = STATUS_COMPLETED
    THEN MsgTerminal ELSE ""

\* d. Terminal state protection (skipped for reversion)
TerminalGuard(current_status, reverted) ==
    IF ~reverted /\ (current_status = STATUS_COMPLETED \/ current_status = STATUS_CANCELLED)
    THEN MsgTerminal ELSE ""

\* Over-strict variant of the V1 reversion guard: it also stops cancelled-to-confirmed reversions.
V1RevertGuardInclusive(is_v1, new_status, reverted) ==
    IF reverted /\ is_v1 /\ new_status <= V1_REVERT_MIN_STATUS
    THEN MsgV1Revert ELSE ""

\* d2. V1 reversion guard: cannot revert to pre-booking states
V1RevertGuard(is_v1, new_status, reverted) ==
    IF reverted /\ is_v1 /\ new_status < V1_REVERT_MIN_STATUS
    THEN MsgV1Revert ELSE ""

\* Weakened variant of the Path B guard: rejects Booking Pending only.
PathBGuardPendingOnly(path, new_status, incoterm, txn_type) ==
    IF path = "B" /\ new_status = STATUS_BOOKING_PENDING
    THEN MsgBooking(incoterm, txn_type) ELSE ""

\* d3. Path B guard: reject booking statuses for non-booking paths
PathBGuard(path, new_status, incoterm, txn_type) ==
    IF path = "B" /\ new_status \in {STATUS_BOOKING_PENDING, STATUS_BOOKING_CONFIRMED}
    THEN MsgBooking(incoterm, txn_type) ELSE ""

\* Weakened variant of the path validation: on the path, any later element is accepted.
PathValidationAnyForward(path_list, current_status, new_status) ==
    IF path_list # << >> /\ InList(current_status, path_list)
       /\ new_status # STATUS_CANCELLED
    THEN IF InList(new_status, path_list)
            /\ IndexOf(new_status, path_list) > IndexOf(current_status, path_list)
         THEN ""
         ELSE MsgFinal
    ELSE ""

\* e. Path-aware validation of a plain update (no allow_jump, no reverted);
\* path_list is << >> where the code has None.
PathValidation(path_list, current_status, new_status) ==
    LET all_codes == <<1001, 1002, 2001, 3001, 3002, 4001, 4002, 5001>>
    IN  IF path_list # << >> /\ InList(current_status, path_list)
           /\ new_status # STATUS_CANCELLED
        THEN LET current_idx == IndexOf(current_status, path_list)
             IN  IF current_idx + 1 <= Len(path_list)
                 THEN IF new_status # path_list[current_idx + 1]
                      THEN MsgInvalid(path_list[current_idx + 1], new_status)
                      ELSE ""
                 ELSE MsgFinal
        ELSE IF new_status = STATUS_CANCELLED
        THEN ""
        ELSE IF path_list = << >>
        THEN IF InList(current_status, all_codes) /\ InList(new_status, all_codes)
                /\ IndexOf(new_status, all_codes) <= IndexOf(current_status, all_codes)
             THEN MsgBackwards
             ELSE ""
        ELSE ""

\* c2..e. The transition decision: "" when the update is accepted, else the
\* message of the ERROR envelope, the first guard that fires.
ValidateTransition(is_v1, current_status, incoterm, txn_type, new_status, allow_jump, reverted) ==
    LET ctx == incoterm # "" /\ txn_type # ""
        path == IF ctx THEN get_status_path(incoterm, txn_type) ELSE "A"
        path_list == IF ctx THEN get_status_path_list(incoterm, txn_type) ELSE << >>
    IN  IF TerminalGuard(current_status, reverted) # ""
        THEN TerminalGuard(current_status, reverted)
        ELSE IF V1RevertGuard(is_v1, new_status, reverted) # ""
        THEN V1RevertGuard(is_v1, new_status, reverted)
        ELSE IF PathBGuard(path, new_status, incoterm, txn_type) # ""
        THEN PathBGuard(path, new_status, incoterm, txn_type)
        ELSE IF ~allow_jump /\ ~reverted
        THEN PathValidation(path_list, current_status, new_status)
        ELSE ""

\* f. the entry appended to Quotation.status_history
QHistoryEntry(new_status, now, claims, reverted, current_status) ==
    [ status |-> new_status,
      label |-> StatusLabel(new_status),
      timestamp |-> now,
      changed_by |-> claims.email,
      reverted |-> reverted,
      reverted_from |-> IF reverted THEN current_status ELSE 0 ]

\* f..g. the Quotation entity as written back
QuotationAfterStatus(q_entity, new_status, now, claims, reverted, current_status) ==
    [ q_entity EXCEPT
        !.status = new_status,
        !.updated = now,
        !.status_history =
            Append(q_entity.status_history,
                   QHistoryEntry(new_status, now, claims, reverted, current_status)) ]

\* h. the ShipmentOrder entity of a V1 record as written back
ShipmentOrderAfterStatus(so_entity, new_status, now) ==
    [ so_entity EXCEPT
        !.status = IF new_status \in V2_TO_V1_KEYS THEN V2_TO_V1(new_status) ELSE new_status,
        !.updated = now,
        !.data_version = IF so_entity.data_version = 2 THEN 0 ELSE so_entity.data_version ]

\* Faulty variant of the workflow history entry: the entry records the new status as reverted_from.
WfHistoryEntryWrongFrom(new_status, now, claims, reverted, current_status) ==
    [ status |-> new_status,
      label |-> StatusLabel(new_status),
      timestamp |-> now,
      changed_by |-> claims.uid,
      reverted |-> reverted,
      reverted_from |-> IF reverted THEN new_status ELSE 0 ]

\* i. the entry appended to ShipmentWorkFlow.status_history
WfHistoryEntry(new_status, now, claims, reverted, current_status) ==
    [ status |-> new_status,
      label |-> StatusLabel(new_status),
      timestamp |-> now,
      changed_by |-> claims.uid,
      reverted |-> reverted,
      reverted_from |-> IF reverted THEN current_status ELSE 0 ]

\* i. the ShipmentWorkFlow entity as written back
WorkflowAfterStatus(wf_entity, new_status, now, claims, reverted, current_status) ==
    [ wf_entity EXCEPT
        !.status_history =
            Append(wf_entity.status_history,
                   WfHistoryEntry(new_status, now, claims, reverted, current_status)),
        !.updated = now,
        !.completed = IF new_status = STATUS_COMPLETED THEN TRUE
                      ELSE IF new_status = STATUS_CANCELLED THEN FALSE
                      ELSE wf_entity.completed ]

\* ------------------------------------------------------------------------
\* routers/shipments.py - create from BL, pure parts
\* ------------------------------------------------------------------------
\* f"AF-{new_countid:06d}": the key name is the prefix and the number
FormatShipmentId(new_countid) == [prefix |-> PREFIX_V2_SHIPMENT, num |-> new_countid]

\* The scan-based global maximum over the count-id kind and the Quotation keys.
CounterMax(counters) == MaxOf({0} \cup {counters[k].countid : k \in DOMAIN counters})

ScanMaxCountId(v2_counter, quotation_keys) ==
    LET v1_max == MaxOf({0} \cup {k.num : k \in {x \in quotation_keys : x.prefix = "AFCQ-"}})
        v2_max == MaxOf({v2_counter} \cup
                        {k.num : k \in {x \in quotation_keys : x.prefix \in {"AF-", "AF2-"}}})
    IN  MaxOf({v2_max, v1_max})

NewCounterEntity(new_countid, now) == [countid |-> new_countid, created |-> now]

NewQuotationEntity(new_countid, body, now, claims) ==
    [ data_version |-> 2,
      countid |-> new_countid,
      incoterm_code |-> body.incoterm_code,
      incoterm |-> "",
      transaction_type |-> body.transaction_type,
      status |-> body.initial_status,
      status_history |->
          << [ status |-> body.initial_status,
               label |-> StatusLabel(body.initial_status),
               timestamp |-> now,
               changed_by |-> claims.email,
               reverted |-> FALSE,
               reverted_from |-> 0 ] >>,
      updated |-> now ]

NewWorkflowEntity(body, now, claims) ==
    [ status_history |->
          << [ status |-> body.initial_status,
               label |-> StatusLabel(body.initial_status),
               timestamp |-> now,
               changed_by |-> claims.uid,
               reverted |-> FALSE,
               reverted_from |-> 0 ] >>,
      completed |-> FALSE,
      updated |-> now ]

\* ------------------------------------------------------------------------
\* Requests the model draws from
\* ------------------------------------------------------------------------
\* Verified claims of the AFU caller (require_afu).
Callers ==
    { [uid |-> "uid-ops1", email |-> "ops1@af.example"] }

\* UpdateStatusRequest.status is an unconstrained int: the nine codes and one other.
StatusInputs == {1001, 1002, 2001, 3001, 3002, 4001, 4002, 5001, -1, 7777}

\* CreateFromBLRequest: the defaults (CNF IMPORT, 3002), the other derived
\* initial status, a Path A pair, and an initial_status outside the code set
\* (the field is an unconstrained int).
CreateBodies ==
    { [incoterm_code |-> i, transaction_type |-> t, initial_status |-> s] :
        i \in {"CNF"}, t \in {"IMPORT"}, s \in {3002, 4001, 7777} }
    \cup { [incoterm_code |-> "FOB", transaction_type |-> "EXPORT", initial_status |-> 3002] }

\* The status inputs of StepSpec: the next step from 2001 on Path A, a jump,
\* completion and cancellation.
StepStatusInputs == {3001, 4001, 5001, -1}

ShipmentId(prefix, num) == [prefix |-> prefix, num |-> num]

NoShipment == ShipmentId("", 0)

\* ------------------------------------------------------------------------
\* State
\* ------------------------------------------------------------------------
VARIABLES
    Quotation,          \* kind Quotation: shipment id -> entity
    ShipmentOrder,      \* kind ShipmentOrder (V1 records): shipment id -> entity
    ShipmentWorkFlow,   \* kind ShipmentWorkFlow: shipment id -> entity
    CountId,            \* kind ShipmentOrderV2CountId: shipment id -> entity
    clock,              \* datetime.now(): the number of requests received so far
    issued,             \* count ids returned by create-from-BL, in order of completion
    last,               \* Spec: the response of the last request
    proc,               \* StepSpec: the request each worker is serving
    Files               \* kind Files: file id -> entity

stores == <<Quotation, ShipmentOrder, ShipmentWorkFlow, CountId>>

vars == <<Quotation, ShipmentOrder, ShipmentWorkFlow, CountId, clock, issued, last, proc, Files>>

Workers == {"w1", "w2"}

\* The records that exist before the first request: one shipment, either
\* canonical (AF-, data_version 2, written by the platform with a workflow
\* and a count-id entry) or legacy (AFCQ-, Quotation joined with ShipmentOrder).
FixtureEntry(status, by) ==
    [ status |-> status, label |-> StatusLabel(status), timestamp |-> 0,
      changed_by |-> by, reverted |-> FALSE, reverted_from |-> 0 ]

V2Fixture(incoterm_code, txn, status) ==
    [ id |-> ShipmentId("AF-", 1),
      q |-> [ data_version |-> 2, countid |-> 1, incoterm_code |-> incoterm_code,
              incoterm |-> "", transaction_type |-> txn, status |-> status,
              status_history |-> << FixtureEntry(status, "ops0@af.example") >>,
              updated |-> 0 ],
      so |-> << >>,
      wf |-> << [ status_history |-> << FixtureEntry(status, "uid-ops0") >>,
                  completed |-> FALSE, updated |-> 0 ] >>,
      counter |-> << [countid |-> 1, created |-> 0] >> ]

V1Fixture(incoterm_code, incoterm, txn, so_status, so_version, has_wf) ==
    [ id |-> ShipmentId("AFCQ-", 1),
      q |-> [ data_version |-> 0, countid |-> 1, incoterm_code |-> incoterm_code,
              incoterm |-> incoterm, transaction_type |-> txn, status |-> 4001,
              status_history |-> << >>, updated |-> 0 ],
      so |-> << [status |-> so_status, updated |-> 0, data_version |-> so_version] >>,
      wf |-> IF has_wf
             THEN << [status_history |-> << >>, completed |-> FALSE, updated |-> 0] >>
             ELSE << >>,
      counter |-> << >> ]

Fixtures ==
    { V2Fixture("FOB", "EXPORT", STATUS_CONFIRMED),
      V2Fixture("FOB", "EXPORT", STATUS_ARRIVED),
      V2Fixture("cnf ", "import", STATUS_CONFIRMED),
      V2Fixture("", "", STATUS_CONFIRMED),
      V1Fixture("", "FOB", "EXPORT", 100, 1, TRUE),
      V1Fixture("CNF", "", "IMPORT", 110, 2, FALSE) }

KindOf(id, opt) == [k \in (IF opt = << >> THEN {} ELSE {id}) |-> opt[1]]

IdleProc ==
    [ pc |-> "idle", op |-> "", shipment_id |-> NoShipment,
      status |-> 0, allow_jump |-> FALSE, reverted |-> FALSE,
      body |-> [incoterm_code |-> "", transaction_type |-> "", initial_status |-> 0],
      claims |-> [uid |-> "", email |-> ""], now |-> 0,
      q_entity |-> << >>, so_entity |-> << >>, wf_entity |-> << >>,
      current_status |-> 0, v2_counter |-> 0, new_countid |-> 0,
      result |-> "", msg |-> "" ]

NoResponse == [result |-> "", msg |-> ""]

Init ==
    \E f \in Fixtures :
        /\ Quotation = KindOf(f.id, << f.q >>)
        /\ ShipmentOrder = KindOf(f.id, f.so)
        /\ ShipmentWorkFlow = KindOf(f.id, f.wf)
        /\ CountId = KindOf(f.id, f.counter)
        /\ clock = 0
        /\ issued = << >>
        /\ last = NoResponse
        /\ proc = [w \in Workers |-> IdleProc]
        /\ Files = << >>

\* StepSpec starts from a canonical or a legacy Path A shipment.
StepFixtures ==
    { V2Fixture("FOB", "EXPORT", STATUS_CONFIRMED),
      V1Fixture("", "FOB", "EXPORT", 100, 1, TRUE) }

StepInit ==
    \E f \in StepFixtures :
        /\ Quotation = KindOf(f.id, << f.q >>)
        /\ ShipmentOrder = KindOf(f.id, f.so)
        /\ ShipmentWorkFlow = KindOf(f.id, f.wf)
        /\ CountId = KindOf(f.id, f.counter)
        /\ clock = 0
        /\ issued = << >>
        /\ last = NoResponse
        /\ proc = [w \in Workers |-> IdleProc]
        /\ Files = << >>

\* Shipment ids a request may name: every stored one and one that does not exist.
RequestIds == DOMAIN Quotation \cup {ShipmentId("AF-", 0)}

\* ------------------------------------------------------------------------
\* Spec: PATCH /{shipment_id}/status, the whole handler
\* ------------------------------------------------------------------------
UpdateStatusEffect(shipment_id, new_status, allow_jump, reverted, claims, now) ==
    IF shipment_id \notin DOMAIN Quotation
    THEN /\ last' = [result |-> "NOT_FOUND", msg |-> "Shipment not found"]
         /\ UNCHANGED stores
    ELSE
    LET q_entity == Quotation[shipment_id]
        is_v1 == IsV1(shipment_id, q_entity)
    IN  IF is_v1 /\ shipment_id \notin DOMAIN ShipmentOrder
        THEN /\ last' = [result |-> "NOT_FOUND", msg |-> "V1 ShipmentOrder record not found"]
             /\ UNCHANGED stores
        ELSE
        LET current_status == IF is_v1
                              THEN ResolveV1Status(ShipmentOrder[shipment_id].status)
                              ELSE q_entity.status
            incoterm == IncotermOf(q_entity)
            txn_type == q_entity.transaction_type
            msg == ValidateTransition(is_v1, current_status, incoterm, txn_type,
                                      new_status, allow_jump, reverted)
        IN  IF msg # ""
            THEN /\ last' = [result |-> "ERROR", msg |-> msg]
                 /\ UNCHANGED stores
            ELSE /\ Quotation' = Put(Quotation, shipment_id,
                        QuotationAfterStatus(q_entity, new_status, now, claims,
                                             reverted, current_status))
                 /\ ShipmentOrder' =
                        IF is_v1
                        THEN Put(ShipmentOrder, shipment_id,
                                 ShipmentOrderAfterStatus(ShipmentOrder[shipment_id],
                                                          new_status, now))
                        ELSE ShipmentOrder
                 /\ ShipmentWorkFlow' =
                        IF shipment_id \in DOMAIN ShipmentWorkFlow
                        THEN Put(ShipmentWorkFlow, shipment_id,
                                 WorkflowAfterStatus(ShipmentWorkFlow[shipment_id], new_status,
                                                     now, claims, reverted, current_status))
                        ELSE ShipmentWorkFlow
                 /\ UNCHANGED CountId
                 /\ last' = [result |-> "OK", msg |-> "Status updated"]

UpdateStatus(shipment_id, new_status, allow_jump, reverted, claims) ==
    /\ clock < MaxRequests
    /\ clock' = clock + 1
    /\ UpdateStatusEffect(shipment_id, new_status, allow_jump, reverted, claims, clock + 1)
    /\ UNCHANGED <<issued, proc, Files>>

\* ------------------------------------------------------------------------
\* Spec: POST /create-from-bl, the whole handler
\* ------------------------------------------------------------------------
CreateFromBL(body, claims) ==
    /\ clock < MaxRequests
    /\ clock' = clock + 1
    /\ LET now == clock + 1
           new_countid == ScanMaxCountId(CounterMax(CountId), DOMAIN Quotation) + 1
           shipment_id == FormatShipmentId(new_countid)
       IN  /\ CountId' = Put(CountId, shipment_id, NewCounterEntity(new_countid, now))
           /\ Quotation' = Put(Quotation, shipment_id,
                               NewQuotationEntity(new_countid, body, now, claims))
           /\ ShipmentWorkFlow' = Put(ShipmentWorkFlow, shipment_id,
                                      NewWorkflowEntity(body, now, claims))
           /\ issued' = Append(issued, new_countid)
           /\ last' = [result |-> "OK", msg |-> "Shipment created from BL"]
    /\ UNCHANGED <<ShipmentOrder, proc, Files>>

UpdateStatusAny ==
    \E shipment_id \in RequestIds, new_status \in StatusInputs,
       allow_jump \in BOOLEAN, reverted \in BOOLEAN, claims \in Callers :
        UpdateStatus(shipment_id, new_status, allow_jump, reverted, claims)

CreateFromBLAny ==
    \E body \in CreateBodies, claims \in Callers : CreateFromBL(body, claims)

Next == UpdateStatusAny \/ CreateFromBLAny

Spec == Init /\ [][Next]_vars

\* ------------------------------------------------------------------------
\* StepSpec: the same handlers, one datastore call per step
\* ------------------------------------------------------------------------
\* A worker takes a request when it has none or has answered its last one; a
\* worker whose handler stopped serves no further request.
Free(w) == proc[w].pc \in {"idle", "done"}

SetProc(w, p) == proc' = [proc EXCEPT ![w] = p]

Respond(p, result, msg) == [p EXCEPT !.pc = "done", !.result = result, !.msg = msg]

\* now = datetime.now(): read before the first datastore call
BeginUpdateStatus(w, shipment_id, new_status, allow_jump, reverted, claims) ==
    /\ Free(w)
    /\ clock < MaxStepRequests
    /\ clock' = clock + 1
    /\ SetProc(w, [IdleProc EXCEPT !.pc = "us_get_q", !.op = "status",
                       !.shipment_id = shipment_id, !.status = new_status,
                       !.allow_jump = allow_jump, !.reverted = reverted,
                       !.claims = claims, !.now = clock + 1])
    /\ UNCHANGED <<stores, issued, last, Files>>

\* d..e on the worker's own copies
Decide(p, is_v1, current_status) ==
    LET q_entity == p.q_entity[1]
        msg == ValidateTransition(is_v1, current_status, IncotermOf(q_entity),
                                  q_entity.transaction_type, p.status,
                                  p.allow_jump, p.reverted)
    IN  IF msg # ""
        THEN Respond(p, "ERROR", msg)
        ELSE [p EXCEPT !.pc = "us_put_q", !.current_status = current_status]

\* a. q_entity = client.get(q_key)   (and c..e for a V2 record)
UsGetQuotation(w) ==
    /\ proc[w].pc = "us_get_q"
    /\ LET p == proc[w]
           sid == p.shipment_id
       IN  IF sid \notin DOMAIN Quotation
           THEN SetProc(w, Respond(p, "NOT_FOUND", "Shipment not found"))
           ELSE LET got == [p EXCEPT !.q_entity = << Quotation[sid] >>]
                IN  IF IsV1(sid, Quotation[sid])
                    THEN SetProc(w, [got EXCEPT !.pc = "us_get_so"])
                    ELSE SetProc(w, Decide(got, FALSE, Quotation[sid].status))
    /\ UNCHANGED <<stores, clock, issued, last, Files>>

\* c. so_entity = client.get(so_key)   (and c..e for a V1 record)
UsGetShipmentOrder(w) ==
    /\ proc[w].pc = "us_get_so"
    /\ LET p == proc[w]
           sid == p.shipment_id
       IN  IF sid \notin DOMAIN ShipmentOrder
           THEN SetProc(w, Respond(p, "NOT_FOUND", "V1 ShipmentOrder record not found"))
           ELSE SetProc(w, Decide([p EXCEPT !.so_entity = << ShipmentOrder[sid] >>], TRUE,
                                  ResolveV1Status(ShipmentOrder[sid].status)))
    /\ UNCHANGED <<stores, clock, issued, last, Files>>

\* g. client.put(q_entity)
UsPutQuotation(w) ==
    /\ proc[w].pc = "us_put_q"
    /\ LET p == proc[w]
       IN  /\ Quotation' = Put(Quotation, p.shipment_id,
                   QuotationAfterStatus(p.q_entity[1], p.status, p.now, p.claims,
                                        p.reverted, p.current_status))
           /\ SetProc(w, [p EXCEPT !.pc = IF p.so_entity # << >>
                                          THEN "us_put_so" ELSE "us_get_wf"])
    /\ UNCHANGED <<ShipmentOrder, ShipmentWorkFlow, CountId, clock, issued, last, Files>>

\* h. client.put(so_entity)
UsPutShipmentOrder(w) ==
    /\ proc[w].pc = "us_put_so"
    /\ LET p == proc[w]
       IN  /\ ShipmentOrder' = Put(ShipmentOrder, p.shipment_id,
                   ShipmentOrderAfterStatus(p.so_entity[1], p.status, p.now))
           /\ SetProc(w, [p EXCEPT !.pc = "us_get_wf"])
    /\ UNCHANGED <<Quotation, ShipmentWorkFlow, CountId, clock, issued, last, Files>>

\* i. wf_entity = client.get(wf_key)
UsGetWorkflow(w) ==
    /\ proc[w].pc = "us_get_wf"
    /\ LET p == proc[w]
           sid == p.shipment_id
       IN  IF sid \notin DOMAIN ShipmentWorkFlow
           THEN SetProc(w, Respond(p, "OK", "Status updated"))
           ELSE SetProc(w, [p EXCEPT !.pc = "us_put_wf",
                                     !.wf_entity = << ShipmentWorkFlow[sid] >>])
    /\ UNCHANGED <<stores, clock, issued, last, Files>>

\* i. client.put(wf_entity), then the OK envelope
UsPutWorkflow(w) ==
    /\ proc[w].pc = "us_put_wf"
    /\ LET p == proc[w]
       IN  /\ ShipmentWorkFlow' = Put(ShipmentWorkFlow, p.shipment_id,
                   WorkflowAfterStatus(p.wf_entity[1], p.status, p.now, p.claims,
                                       p.reverted, p.current_status))
           /\ SetProc(w, Respond(p, "OK", "Status updated"))
    /\ UNCHANGED <<Quotation, ShipmentOrder, CountId, clock, issued, last, Files>>

BeginCreateFromBL(w, body, claims) ==
    /\ Free(w)
    /\ clock < MaxStepRequests
    /\ clock' = clock + 1
    /\ SetProc(w, [IdleProc EXCEPT !.pc = "cr_query_counters", !.op = "create",
                       !.body = body, !.claims = claims, !.now = clock + 1])
    /\ UNCHANGED <<stores, issued, last, Files>>

\* 1. list(client.query(kind="ShipmentOrderV2CountId").fetch())
CrQueryCounters(w) ==
    /\ proc[w].pc = "cr_query_counters"
    /\ SetProc(w, [proc[w] EXCEPT !.pc = "cr_query_keys", !.v2_counter = CounterMax(CountId)])
    /\ UNCHANGED <<stores, clock, issued, last, Files>>

\* 2..3. the keys-only Quotation query, then new_countid and shipment_id
CrQueryKeys(w) ==
    /\ proc[w].pc = "cr_query_keys"
    /\ LET new_countid == ScanMaxCountId(proc[w].v2_counter, DOMAIN Quotation) + 1
       IN  SetProc(w, [proc[w] EXCEPT !.pc = "cr_put_counter", !.new_countid = new_countid,
                                      !.shipment_id = FormatShipmentId(new_countid)])
    /\ UNCHANGED <<stores, clock, issued, last, Files>>

\* client.put(counter_entity)
CrPutCounter(w) ==
    /\ proc[w].pc = "cr_put_counter"
    /\ LET p == proc[w]
       IN  /\ CountId' = Put(CountId, p.shipment_id, NewCounterEntity(p.new_countid, p.now))
           /\ SetProc(w, [p EXCEPT !.pc = "cr_put_q"])
    /\ UNCHANGED <<Quotation, ShipmentOrder, ShipmentWorkFlow, clock, issued, last, Files>>

\* client.put(q_entity)
CrPutQuotation(w) ==
    /\ proc[w].pc = "cr_put_q"
    /\ LET p == proc[w]
       IN  /\ Quotation' = Put(Quotation, p.shipment_id,
                               NewQuotationEntity(p.new_countid, p.body, p.now, p.claims))
           /\ SetProc(w, [p EXCEPT !.pc = "cr_put_wf"])
    /\ UNCHANGED <<ShipmentOrder, ShipmentWorkFlow, CountId, clock, issued, last, Files>>

\* client.put(wf_entity), then the OK envelope with the shipment id
CrPutWorkflow(w) ==
    /\ proc[w].pc = "cr_put_wf"
    /\ LET p == proc[w]
       IN  /\ ShipmentWorkFlow' = Put(ShipmentWorkFlow, p.shipment_id,
                                      NewWorkflowEntity(p.body, p.now, p.claims))
           /\ issued' = Append(issued, p.new_countid)
           /\ SetProc(w, Respond(p, "OK", "Shipment created from BL"))
    /\ UNCHANGED <<Quotation, ShipmentOrder, CountId, clock, last, Files>>

\* A handler stops between two datastore calls: a call raises (the exception
\* becomes a 500 response) or the instance is stopped. Earlier puts stay.
Fail(w) ==
    /\ proc[w].pc \notin {"idle", "done", "failed"}
    /\ SetProc(w, [proc[w] EXCEPT !.pc = "failed", !.result = "FAILED", !.msg = ""])
    /\ UNCHANGED <<stores, clock, issued, last, Files>>

BeginUpdateStatusAny ==
    \E w \in Workers, shipment_id \in RequestIds, new_status \in StepStatusInputs,
       allow_jump \in BOOLEAN, reverted \in BOOLEAN, claims \in Callers :
        BeginUpdateStatus(w, shipment_id, new_status, allow_jump, reverted, claims)

BeginCreateFromBLAny ==
    \E w \in Workers, body \in CreateBodies, claims \in Callers :
        BeginCreateFromBL(w, body, claims)

UsGetQuotationAny == \E w \in Workers : UsGetQuotation(w)

UsGetShipmentOrderAny == \E w \in Workers : UsGetShipmentOrder(w)

UsPutQuotationAny == \E w \in Workers : UsPutQuotation(w)

UsPutShipmentOrderAny == \E w \in Workers : UsPutShipmentOrder(w)

UsGetWorkflowAny == \E w \in Workers : UsGetWorkflow(w)

UsPutWorkflowAny == \E w \in Workers : UsPutWorkflow(w)

CrQueryCountersAny == \E w \in Workers : CrQueryCounters(w)

CrQueryKeysAny == \E w \in Workers : CrQueryKeys(w)

CrPutCounterAny == \E w \in Workers : CrPutCounter(w)

CrPutQuotationAny == \E w \in Workers : CrPutQuotation(w)

CrPutWorkflowAny == \E w \in Workers : CrPutWorkflow(w)

FailAny == \E w \in Workers : Fail(w)

StepNext ==
    \/ BeginUpdateStatusAny
    \/ UsGetQuotationAny
    \/ UsGetShipmentOrderAny
    \/ UsPutQuotationAny
    \/ UsPutShipmentOrderAny
    \/ UsGetWorkflowAny
    \/ UsPutWorkflowAny
    \/ BeginCreateFromBLAny
    \/ CrQueryCountersAny
    \/ CrQueryKeysAny
    \/ CrPutCounterAny
    \/ CrPutQuotationAny
    \/ CrPutWorkflowAny
    \/ FailAny

StepSpec == StepInit /\ [][StepNext]_vars

\* ------------------------------------------------------------------------
\* Properties
\* ------------------------------------------------------------------------
\* The handler can resolve a current status: the Quotation exists and, for a
\* V1 record, so does its ShipmentOrder.
Readable(sid) ==
    /\ sid \in DOMAIN Quotation
    /\ IsV1(sid, Quotation[sid]) => sid \in DOMAIN ShipmentOrder

\* c. The current status the handler resolves for a readable shipment.
CurrentStatus(sid) ==
    IF IsV1(sid, Quotation[sid])
    THEN ResolveV1Status(ShipmentOrder[sid].status)
    ELSE Quotation[sid].status

HasContext(sid) == IncotermOf(Quotation[sid]) # "" /\ Quotation[sid].transaction_type # ""

OnPathB(sid) ==
    HasContext(sid)
    /\ get_status_path(IncotermOf(Quotation[sid]), Quotation[sid].transaction_type) = "B"

\* The two paths as the specification states them.
PathA == <<1001, 1002, 2001, 3001, 3002, 4001, 4002, 5001>>

PathB == <<1001, 1002, 2001, 4001, 4002, 5001>>

PathOf(sid) == IF OnPathB(sid) THEN PathB ELSE PathA

\* t is the element immediately after s on path
IsNextOn(path, s, t) == \E i \in 1..(Len(path) - 1) : path[i] = s /\ path[i + 1] = t

Terminal(s) == s = 5001 \/ s = -1

LastOf(seq) == seq[Len(seq)]

\* C1: with incoterm context and an on-path current status, a plain update
\* (allow_jump = false, reverted = false, target other than -1) is accepted
\* exactly when the target is the next element of the path, and a rejected
\* update writes nothing.
C1_NextStepOnly ==
    [][ \A sid \in DOMAIN Quotation, t \in StatusInputs \ {-1}, c \in Callers :
          ( /\ UpdateStatus(sid, t, FALSE, FALSE, c)
            /\ Readable(sid)
            /\ HasContext(sid)
            /\ InList(CurrentStatus(sid), PathOf(sid)) )
          => /\ last'.result \in {"OK", "ERROR"}
             /\ (last'.result = "OK") <=> IsNextOn(PathOf(sid), CurrentStatus(sid), t)
             /\ last'.result = "ERROR" => UNCHANGED stores
             /\ last'.result = "OK" => Quotation'[sid].status = t ]_vars

\* C1 witness: on a Path A shipment at 2001 the skip to 4001 was refused with
\* "next step is Booking Pending (3001), not 4001".
C1_Witness ==
    /\ last.result = "ERROR"
    /\ last.msg = MsgInvalid(3001, 4001)
    /\ \E sid \in DOMAIN Quotation :
          Readable(sid) /\ HasContext(sid) /\ ~OnPathB(sid) /\ CurrentStatus(sid) = 2001

\* C2: an update with reverted = false on a shipment whose current status is
\* 5001 or -1 is rejected with the terminal message, for every target and both
\* values of allow_jump, and no record changes.
C2_TerminalProtected ==
    [][ \A sid \in DOMAIN Quotation, t \in StatusInputs, aj \in BOOLEAN, c \in Callers :
          ( /\ UpdateStatus(sid, t, aj, FALSE, c)
            /\ Readable(sid)
            /\ Terminal(CurrentStatus(sid)) )
          => /\ last'.result = "ERROR"
             /\ last'.msg = "Cannot change status of a completed or cancelled shipment"
             /\ UNCHANGED stores ]_vars

\* C2 witness: a terminal shipment has just refused an update.
C2_Witness ==
    /\ last.result = "ERROR"
    /\ last.msg = "Cannot change status of a completed or cancelled shipment"
    /\ \E sid \in DOMAIN Quotation : Readable(sid) /\ Terminal(CurrentStatus(sid))

\* The message of the Path B rejection for a stored shipment.
BookingMessage(sid) ==
    "Booking statuses not applicable for " \o IncotermOf(Quotation[sid]) \o " "
        \o Quotation[sid].transaction_type \o " (Path B)"

\* C3 as stated: on a Path B shipment a target of 3001 or 3002 is rejected with
\* the booking message whatever allow_jump and reverted are, and no status
\* update moves a Path B shipment into 3001 or 3002.
C3_Original ==
    [][ \A sid \in DOMAIN Quotation, t \in {3001, 3002}, aj \in BOOLEAN, rev \in BOOLEAN,
           c \in Callers :
          (UpdateStatus(sid, t, aj, rev, c) /\ Readable(sid) /\ OnPathB(sid))
          => /\ last'.result = "ERROR"
             /\ last'.msg = BookingMessage(sid)
             /\ UNCHANGED stores ]_vars

\* C3 amended: such an update is always rejected and writes nothing; the
\* message is the booking message, except that a terminal current status with
\* reverted = false answers with the terminal message, which is checked first.
\* No status update moves a Path B shipment into 3001 or 3002.
C3_PathBRejectsBooking ==
    [][ /\ \A sid \in DOMAIN Quotation, t \in {3001, 3002}, aj \in BOOLEAN, rev \in BOOLEAN,
              c \in Callers :
             (UpdateStatus(sid, t, aj, rev, c) /\ Readable(sid) /\ OnPathB(sid))
             => /\ last'.result = "ERROR"
                /\ last'.msg = IF ~rev /\ Terminal(CurrentStatus(sid))
                               THEN "Cannot change status of a completed or cancelled shipment"
                               ELSE BookingMessage(sid)
                /\ UNCHANGED stores
        /\ \A sid \in DOMAIN Quotation :
             (UpdateStatusAny /\ OnPathB(sid) /\ Quotation'[sid].status \in {3001, 3002})
             => Quotation'[sid].status = Quotation[sid].status ]_vars

\* C3 witness: a Path B shipment has just refused a booking status.
C3_Witness ==
    /\ last.result = "ERROR"
    /\ \E sid \in DOMAIN Quotation :
          OnPathB(sid) /\ ~Terminal(CurrentStatus(sid)) /\ last.msg = BookingMessage(sid)

StatusCodes == {1001, 1002, 2001, 3001, 3002, 4001, 4002, 5001, -1}

\* C4: every shipment's status is one of the nine status codes.
C4_StatusInCodeSet ==
    \A sid \in DOMAIN Quotation : Quotation[sid].status \in StatusCodes

\* C5: a successful status update leaves the shipment's status_history equal
\* to the stored history with exactly one entry appended; the entry carries the
\* new status and the caller's email, and no earlier entry has a later timestamp.
C5_HistoryAppendOnly ==
    [][ \A w \in Workers :
          UsPutQuotation(w)
          => LET sid == proc[w].shipment_id
                 old == Quotation[sid].status_history
                 new == Quotation'[sid].status_history
             IN  /\ Len(new) = Len(old) + 1
                 /\ SubSeq(new, 1, Len(old)) = old
                 /\ LastOf(new).status = Quotation'[sid].status
                 /\ LastOf(new).changed_by = proc[w].claims.email
                 /\ \A i \in 1..Len(old) : old[i].timestamp <= LastOf(new).timestamp ]_vars

\* The records of a request show its mutation when they carry its timestamp
\* (a request's now is unique to it).
HasEntryAt(history, now) == \E i \in 1..Len(history) : history[i].timestamp = now

Agree(flags) == Cardinality(flags) <= 1

\* C6: a handler that stopped between its first and its last write leaves
\* either all of its records showing the mutation or none: the Quotation, the
\* ShipmentOrder mirror and the workflow for a status update; the count-id
\* entry, the Quotation and the workflow for a create.
C6_AllOrNothing ==
    \A w \in Workers :
        proc[w].pc = "failed"
        => LET p == proc[w]
               sid == p.shipment_id
           IN  /\ (p.op = "status" /\ sid \in DOMAIN Quotation)
                  => Agree( {HasEntryAt(Quotation[sid].status_history, p.now)}
                            \cup {ShipmentOrder[k].updated = p.now :
                                    k \in {sid} \cap DOMAIN ShipmentOrder}
                            \cup {HasEntryAt(ShipmentWorkFlow[k].status_history, p.now) :
                                    k \in {sid} \cap DOMAIN ShipmentWorkFlow} )
               /\ (p.op = "create" /\ sid # NoShipment)
                  => Agree( { sid \in DOMAIN CountId /\ CountId[sid].created = p.now,
                              sid \in DOMAIN Quotation
                                 /\ HasEntryAt(Quotation[sid].status_history, p.now),
                              sid \in DOMAIN ShipmentWorkFlow
                                 /\ HasEntryAt(ShipmentWorkFlow[sid].status_history, p.now) } )

\* C7: concurrent mutations of one shipment take effect one after the other,
\* so nothing a request wrote is lost: the history entry of every status update
\* answered OK is in the shipment's history and in the workflow's history.
C7_NoLostUpdate ==
    \A w \in Workers :
        (proc[w].pc = "done" /\ proc[w].result = "OK" /\ proc[w].op = "status")
        => LET p == proc[w]
               sid == p.shipment_id
           IN  /\ HasEntryAt(Quotation[sid].status_history, p.now)
               /\ sid \in DOMAIN ShipmentWorkFlow
                  => HasEntryAt(ShipmentWorkFlow[sid].status_history, p.now)

\* C8: every count id returned by a create is larger than every count id
\* returned before it (hence unique), and no create overwrites a stored shipment.
C8_CountIdUniqueIncreasing ==
    [][ /\ issued' # issued
           => \A i \in 1..Len(issued) : issued[i] < LastOf(issued')
        /\ \A w \in Workers :
             CrPutQuotation(w) => proc[w].shipment_id \notin DOMAIN Quotation ]_vars

Statuses(history) == [i \in 1..Len(history) |-> history[i].status]

InFlight(sid) ==
    \E w \in Workers : proc[w].pc \notin {"idle", "done", "failed"} /\ proc[w].shipment_id = sid

\* C9: status updates append to the shipment history and to the workflow
\* history together, so once no update of a shipment is being served - and
\* none has failed - both histories show the same sequence of statuses.
C9_HistoriesAgree ==
    (\A w \in Workers : proc[w].pc # "failed")
    => \A sid \in DOMAIN Quotation \cap DOMAIN ShipmentWorkFlow :
          ~InFlight(sid)
          => Statuses(Quotation[sid].status_history)
               = Statuses(ShipmentWorkFlow[sid].status_history)

\* What C10 says of the entries a reverted update appends.
RevertEntriesCarryFlags(sid) ==
    /\ LastOf(Quotation'[sid].status_history).reverted = TRUE
    /\ LastOf(Quotation'[sid].status_history).reverted_from = CurrentStatus(sid)
    /\ sid \in DOMAIN ShipmentWorkFlow
       => /\ LastOf(ShipmentWorkFlow'[sid].status_history).reverted = TRUE
          /\ LastOf(ShipmentWorkFlow'[sid].status_history).reverted_from = CurrentStatus(sid)

\* C10 as stated: from a terminal status an update with reverted = true is
\* accepted unless the Path B booking check rejects it, and the entries it
\* appends to both histories carry reverted = true and reverted_from = the
\* current status.
C10_Original ==
    [][ \A sid \in DOMAIN Quotation, t \in StatusInputs, aj \in BOOLEAN, c \in Callers :
          (UpdateStatus(sid, t, aj, TRUE, c) /\ Readable(sid) /\ Terminal(CurrentStatus(sid)))
          => /\ (last'.result = "OK") <=> ~(OnPathB(sid) /\ t \in {3001, 3002})
             /\ last'.result = "OK" => RevertEntriesCarryFlags(sid) ]_vars

\* C10 amended: as stated, with one more check - on a V1 (legacy) record a
\* reverted update to a target below 2001 (1001, 1002, -1) is rejected.
C10_RevertFromTerminal ==
    [][ \A sid \in DOMAIN Quotation, t \in StatusInputs, aj \in BOOLEAN, c \in Callers :
          (UpdateStatus(sid, t, aj, TRUE, c) /\ Readable(sid) /\ Terminal(CurrentStatus(sid)))
          => /\ (last'.result = "OK")
                  <=> /\ ~(OnPathB(sid) /\ t \in {3001, 3002})
                      /\ ~(IsV1(sid, Quotation[sid]) /\ t < 2001)
             /\ last'.result = "OK" => RevertEntriesCarryFlags(sid)
             /\ last'.result # "OK" => UNCHANGED stores ]_vars

\* C10 witness: a completed shipment was moved back by a reverted update, and
\* both histories end with an entry marked reverted from 5001.
C10_Witness ==
    /\ last.result = "OK"
    /\ \E sid \in DOMAIN Quotation \cap DOMAIN ShipmentWorkFlow :
          /\ Len(Quotation[sid].status_history) > 0
          /\ LastOf(Quotation[sid].status_history).reverted
          /\ LastOf(Quotation[sid].status_history).reverted_from = 5001
          /\ LastOf(ShipmentWorkFlow[sid].status_history).reverted
          /\ LastOf(ShipmentWorkFlow[sid].status_history).reverted_from = 5001
          /\ Quotation[sid].status = 4002

\* ------------------------------------------------------------------------
\* logic/incoterm_tasks.py - the task rules engine
\* ------------------------------------------------------------------------
ORIGIN_HAULAGE == "ORIGIN_HAULAGE"
FREIGHT_BOOKING == "FREIGHT_BOOKING"
EXPORT_CLEARANCE == "EXPORT_CLEARANCE"
POL == "POL"
POD == "POD"
IMPORT_CLEARANCE == "IMPORT_CLEARANCE"
DESTINATION_HAULAGE == "DESTINATION_HAULAGE"

PENDING == "PENDING"
IN_PROGRESS == "IN_PROGRESS"
COMPLETED == "COMPLETED"
BLOCKED == "BLOCKED"

ASSIGNED == "ASSIGNED"
TRACKED == "TRACKED"
IGNORED == "IGNORED"

\* Variant of the leg levels with the two port legs exchanged.
TASK_LEG_LEVEL_PortsSwapped ==
    [ ORIGIN_HAULAGE |-> 1, FREIGHT_BOOKING |-> 2, EXPORT_CLEARANCE |-> 3,
      POL |-> 5, POD |-> 4, IMPORT_CLEARANCE |-> 6, DESTINATION_HAULAGE |-> 7 ]

TASK_LEG_LEVEL ==
    [ ORIGIN_HAULAGE |-> 1, FREIGHT_BOOKING |-> 2, EXPORT_CLEARANCE |-> 3,
      POL |-> 4, POD |-> 5, IMPORT_CLEARANCE |-> 6, DESTINATION_HAULAGE |-> 7 ]

\* Variant of the default mode: every task type starts ASSIGNED.
DefaultModeAllAssigned(task_type) == ASSIGNED

\* _DEFAULT_MODE.get(task_type, ASSIGNED)
DefaultMode(task_type) == IF task_type \in {POL, POD} THEN TRACKED ELSE ASSIGNED

\* The task lists the matrix repeats.
RuleDoorToDoor ==
    <<ORIGIN_HAULAGE, FREIGHT_BOOKING, EXPORT_CLEARANCE, POL, POD, IMPORT_CLEARANCE,
      DESTINATION_HAULAGE>>

RuleSellerExport == <<ORIGIN_HAULAGE, FREIGHT_BOOKING, EXPORT_CLEARANCE, POL, POD>>

RuleBuyerImport == <<POL, POD, IMPORT_CLEARANCE, DESTINATION_HAULAGE>>

RuleDomestic == <<ORIGIN_HAULAGE, FREIGHT_BOOKING, POL, POD, DESTINATION_HAULAGE>>

RuleCDGroup == [EXPORT |-> RuleSellerExport, IMPORT |-> RuleBuyerImport, DOMESTIC |-> RuleDomestic]

RuleDGroup == [EXPORT |-> RuleDoorToDoor, IMPORT |-> RuleBuyerImport, DOMESTIC |-> RuleDomestic]

\* _INCOTERM_RULES: incoterm -> transaction type -> task types
INCOTERM_RULES ==
    [ EXW |-> [EXPORT |-> << >>, IMPORT |-> RuleDoorToDoor, DOMESTIC |-> RuleDomestic],
      FCA |-> [EXPORT |-> <<FREIGHT_BOOKING, EXPORT_CLEARANCE, POL, POD>>,
               IMPORT |-> RuleDoorToDoor,
               DOMESTIC |-> <<FREIGHT_BOOKING, POL, POD, DESTINATION_HAULAGE>>],
      FOB |-> [EXPORT |-> RuleSellerExport,
               IMPORT |-> <<FREIGHT_BOOKING, POL, POD, IMPORT_CLEARANCE, DESTINATION_HAULAGE>>,
               DOMESTIC |-> RuleDomestic],
      CFR |-> RuleCDGroup, CIF |-> RuleCDGroup, CNF |-> RuleCDGroup,
      CPT |-> RuleCDGroup, CIP |-> RuleCDGroup,
      DAP |-> RuleDGroup, DPU |-> RuleDGroup, DDP |-> RuleDGroup ]

\* rules = _INCOTERM_RULES.get(incoterm_upper); rules.get(txn_upper, [])
MatrixTaskTypes(incoterm, transaction_type) ==
    LET incoterm_upper == UpperStrip(incoterm)
        txn_upper == UpperStrip(transaction_type)
    IN  IF incoterm_upper \notin DOMAIN INCOTERM_RULES THEN << >>
        ELSE IF txn_upper \notin DOMAIN INCOTERM_RULES[incoterm_upper] THEN << >>
        ELSE INCOTERM_RULES[incoterm_upper][txn_upper]

\* EXPORT_CLEARANCE blocked when FREIGHT_BOOKING present
InitialTaskStatus(task_type, has_freight_booking) ==
    IF task_type = EXPORT_CLEARANCE /\ has_freight_booking THEN BLOCKED ELSE PENDING

\* str(uuid.uuid4()): a fresh id, here the generating call and the position
TaskId(gen, k) == [gen |-> gen, k |-> k]

\* One task dict of generate_tasks (the shipments drawn carry no dates, so
\* due_date and scheduled_end are None; 0 stands for None in the time fields).
NewTask(task_type, has_freight_booking, gen, k, updated_by, now) ==
    [ task_id |-> TaskId(gen, k),
      task_type |-> task_type,
      leg_level |-> TASK_LEG_LEVEL[task_type],
      mode |-> DefaultMode(task_type),
      status |-> InitialTaskStatus(task_type, has_freight_booking),
      visibility |-> "VISIBLE",
      actual_start |-> 0,
      actual_end |-> 0,
      completed_at |-> 0,
      updated_by |-> updated_by,
      updated_at |-> now ]

\* tasks.sort(key=lambda t: t["leg_level"]): a stable sort, by insertion
RECURSIVE InsertByLegLevel(_, _)
InsertByLegLevel(sorted, t) ==
    IF sorted = << >> THEN << t >>
    ELSE IF sorted[Len(sorted)].leg_level <= t.leg_level THEN Append(sorted, t)
    ELSE Append(InsertByLegLevel(SubSeq(sorted, 1, Len(sorted) - 1), t), sorted[Len(sorted)])

RECURSIVE SortByLegLevel(_)
SortByLegLevel(tasks) ==
    IF tasks = << >> THEN << >>
    ELSE InsertByLegLevel(SortByLegLevel(SubSeq(tasks, 1, Len(tasks) - 1)), tasks[Len(tasks)])

generate_tasks(incoterm, transaction_type, updated_by, now, gen) ==
    LET task_types == MatrixTaskTypes(incoterm, transaction_type)
        has_freight_booking == InList(FREIGHT_BOOKING, task_types)
    IN  SortByLegLevel([k \in 1..Len(task_types) |->
            NewTask(task_types[k], has_freight_booking, gen, k, updated_by, now)])

\* migrate_task_on_read: "" stands for a key the stored task lacks (or holds
\* empty); the timing defaults it fills are None for a task without dates.
migrate_task_on_read(task) ==
    LET tt == task.task_type
        t1 == IF tt = "VESSEL_DEPARTURE" THEN [task EXCEPT !.task_type = POL]
              ELSE IF tt = "VESSEL_ARRIVAL" THEN [task EXCEPT !.task_type = POD]
              ELSE IF tt = "IN_TRANSIT"
              THEN [task EXCEPT !.task_type = "IN_TRANSIT_LEGACY",
                                !.mode = IF task.mode = "" THEN IGNORED ELSE task.mode,
                                !.visibility = IF task.visibility = "" THEN "HIDDEN"
                                               ELSE task.visibility]
              ELSE task
        t2 == IF t1.task_type \in DOMAIN TASK_LEG_LEVEL
              THEN [t1 EXCEPT !.leg_level = TASK_LEG_LEVEL[t1.task_type]]
              ELSE t1
    IN  IF t2.mode = "" THEN [t2 EXCEPT !.mode = DefaultMode(t2.task_type)] ELSE t2

\* ------------------------------------------------------------------------
\* routers/shipments.py - task update, pure parts
\* ------------------------------------------------------------------------
\* UpdateTaskRequest: "" stands for a field the patch does not carry (None).
TaskBody(status, mode, visibility) == [status |-> status, mode |-> mode, visibility |-> visibility]

\* Permission check: "" when the caller may patch, else the 403 detail.
TaskPermission(body, claims) ==
    IF claims.account_type = "AFC"
    THEN IF claims.role \notin {"AFC-ADMIN", "AFC-M"}
         THEN "Read-only access - cannot update tasks"
         ELSE IF body.visibility # "" THEN "Only AF staff can change task visibility"
         ELSE ""
    ELSE ""

\* Enum validation: "" when every value is known, else the 400 detail.
TaskEnumCheck(body) ==
    IF body.status # "" /\ body.status \notin {PENDING, IN_PROGRESS, COMPLETED, BLOCKED}
    THEN "Invalid status: " \o body.status
    ELSE IF body.mode # "" /\ body.mode \notin {ASSIGNED, TRACKED, IGNORED}
    THEN "Invalid mode: " \o body.mode
    ELSE IF body.visibility # "" /\ body.visibility \notin {"VISIBLE", "HIDDEN"}
    THEN "Invalid visibility: " \o body.visibility
    ELSE ""

\* for i, t in enumerate(tasks): first index whose task_id matches, 0 for None
FindTask(tasks, task_id) ==
    IF \E i \in 1..Len(tasks) : tasks[i].task_id = task_id
    THEN CHOOSE i \in 1..Len(tasks) :
            tasks[i].task_id = task_id /\ \A j \in 1..(i - 1) : tasks[j].task_id # task_id
    ELSE 0

\* Apply mode updates (before status): the elif reads task["mode"] after the
\* assignment on the line above it.
ApplyTaskMode(task, body) ==
    IF body.mode = "" THEN task
    ELSE LET t1 == [task EXCEPT !.mode = body.mode]
         IN  IF body.mode = IGNORED
             THEN [t1 EXCEPT !.visibility = "HIDDEN", !.status = PENDING]
             ELSE IF t1.mode = IGNORED /\ body.mode # IGNORED
             THEN [t1 EXCEPT !.visibility = "VISIBLE"]
             ELSE t1

MsgBlockedMode == "BLOCKED status only valid for ASSIGNED mode tasks"

\* BLOCKED is only valid when mode is ASSIGNED: task.get("mode", ASSIGNED) != ASSIGNED
BlockedRejected(task, body) ==
    body.status = BLOCKED /\ (IF task.mode = "" THEN ASSIGNED ELSE task.mode) # ASSIGNED

\* Apply status updates (the patches drawn carry no actual_start / actual_end).
ApplyTaskStatus(task, body, now) ==
    IF body.status = "" THEN task
    ELSE LET old_status == task.status
             t1 == [task EXCEPT !.status = body.status]
             t2 == IF body.status = IN_PROGRESS /\ old_status # IN_PROGRESS /\ t1.actual_start = 0
                   THEN [t1 EXCEPT !.actual_start = now]
                   ELSE t1
         IN  IF body.status = COMPLETED
             THEN LET t3 == IF t2.mode = TRACKED /\ t2.task_type = "POD"
                            THEN IF t2.actual_start = 0
                                 THEN [t2 EXCEPT !.actual_start = now] ELSE t2
                            ELSE IF t2.actual_end = 0
                                 THEN [t2 EXCEPT !.actual_end = now] ELSE t2
                  IN  [t3 EXCEPT !.completed_at = now]
             ELSE t2

ApplyTaskVisibility(task, body) ==
    IF body.visibility = "" THEN task ELSE [task EXCEPT !.visibility = body.visibility]

\* The target task after the patch (mode, status, visibility, stamp).
PatchedTask(task, body, claims, now) ==
    [ ApplyTaskVisibility(ApplyTaskStatus(ApplyTaskMode(task, body), body, now), body)
        EXCEPT !.updated_by = claims.uid, !.updated_at = now ]

\* booking.booking_reference, else the flat booking_reference, of the Quotation
BookingRefOf(q_opt) ==
    IF q_opt = << >> THEN ""
    ELSE IF q_opt[1].booking.booking_reference # "" THEN q_opt[1].booking.booking_reference
    ELSE q_opt[1].booking_reference

\* Variant of the unblock loop that leaves every task as it is.
UnblockExportClearanceNone(tasks, uid, now) == tasks

\* for t in tasks: every BLOCKED EXPORT_CLEARANCE becomes PENDING
UnblockExportClearance(tasks, uid, now) ==
    [i \in 1..Len(tasks) |->
        IF tasks[i].task_type = EXPORT_CLEARANCE /\ tasks[i].status = BLOCKED
        THEN [tasks[i] EXCEPT !.status = PENDING, !.updated_by = uid, !.updated_at = now]
        ELSE tasks[i]]

MsgStillBlocked == "EXPORT_CLEARANCE remains BLOCKED - booking_reference not set on shipment"

\* The task list written back: the patched target, then the unblock
\* propagation when the patch completes a FREIGHT_BOOKING task.
TasksAfterPatch(tasks, target_idx, body, claims, now, booking_ref) ==
    LET patched == [tasks EXCEPT ![target_idx] = PatchedTask(tasks[target_idx], body, claims, now)]
    IN  IF body.status = COMPLETED /\ patched[target_idx].task_type = FREIGHT_BOOKING
           /\ booking_ref # ""
        THEN UnblockExportClearance(patched, claims.uid, now)
        ELSE patched

TaskWarning(tasks, target_idx, body, booking_ref) ==
    IF body.status = COMPLETED /\ tasks[target_idx].task_type = FREIGHT_BOOKING
       /\ booking_ref = ""
    THEN MsgStillBlocked ELSE ""

\* ------------------------------------------------------------------------
\* Task requests and the records they act on
\* ------------------------------------------------------------------------
\* Requests served in a behaviour of TaskSpec.
MaxTaskRequests == 2

\* Verified claims (core/auth.py Claims): AF staff, a company admin of AFC-A
\* and a company manager of AFC-B.
TaskCallers ==
    { [uid |-> "uid-ops1", email |-> "ops1@af.example", account_type |-> "AFU",
       role |-> "AFU-ADMIN", company_id |-> ""],
      [uid |-> "uid-a1", email |-> "a1@a.example", account_type |-> "AFC",
       role |-> "AFC-ADMIN", company_id |-> "AFC-A"],
      [uid |-> "uid-b1", email |-> "b1@b.example", account_type |-> "AFC",
       role |-> "AFC-M", company_id |-> "AFC-B"] }

\* The patches drawn: single fields, the combinations the mode and status
\* blocks order, and one unknown status value.
TaskBodies ==
    { TaskBody(COMPLETED, "", ""), TaskBody(BLOCKED, "", ""),
      TaskBody("", IGNORED, ""), TaskBody("", TRACKED, ""), TaskBody("", ASSIGNED, ""),
      TaskBody(COMPLETED, IGNORED, ""), TaskBody("", "", "HIDDEN"),
      TaskBody("", IGNORED, "VISIBLE"), TaskBody("DONE", "", "") }

\* The envelope of a task or read request: the tasks and the records it carries.
TaskResponse(result, msg, tasks, data, warning) ==
    [result |-> result, msg |-> msg, tasks |-> tasks, data |-> data, warning |-> warning]

NoTaskResponse == TaskResponse("", "", << >>, << >>, "")

\* A canonical shipment as create-from-BL or the platform stores it.
TaskQuotation(company_id, incoterm_code, txn, booking_ref) ==
    [ data_version |-> 2, countid |-> 1, company_id |-> company_id,
      incoterm_code |-> incoterm_code, incoterm |-> "", transaction_type |-> txn,
      status |-> STATUS_CONFIRMED,
      status_history |-> << FixtureEntry(STATUS_CONFIRMED, "ops0@af.example") >>,
      booking |-> [booking_reference |-> booking_ref], booking_reference |-> "",
      route_nodes |-> << >>, origin_port_un_code |-> "MYPKG",
      destination_port_un_code |-> "SGSIN", trash |-> FALSE, updated |-> 0 ]

TaskWorkflow(company_id, tasks) ==
    [ company_id |-> company_id,
      status_history |-> << FixtureEntry(STATUS_CONFIRMED, "uid-ops0") >>,
      workflow_tasks |-> tasks, incoterm |-> "", transaction_type |-> "",
      completed |-> FALSE, updated |-> 0 ]

\* A shipment of company AFC-A: with_tasks tells whether its workflow was
\* written with the generated tasks (create-from-BL) or without (the platform).
TaskFixture(incoterm_code, txn, booking_ref, with_tasks) ==
    [ id |-> ShipmentId("AF-", 1),
      q |-> << TaskQuotation("AFC-A", incoterm_code, txn, booking_ref) >>,
      so |-> << >>,
      wf |-> << TaskWorkflow("AFC-A",
                    IF with_tasks
                    THEN generate_tasks(incoterm_code, txn, "ops0@af.example", 0, 0)
                    ELSE << >>) >> ]

\* A task as the V1 system stored it: the V1 type name, the V1 process level
\* (logic/workflow.py process_order), none of the fields added since.
LegacyTask(k, task_type, leg_level, status) ==
    [ task_id |-> TaskId(0, k), task_type |-> task_type, leg_level |-> leg_level,
      mode |-> "", status |-> status, visibility |-> "",
      actual_start |-> 0, actual_end |-> 0, completed_at |-> 0,
      updated_by |-> "v1", updated_at |-> 0 ]

\* A legacy shipment of company AFC-A (Quotation joined with ShipmentOrder)
\* whose workflow holds V1 tasks.
LegacyTaskFixture ==
    [ id |-> ShipmentId("AFCQ-", 1),
      q |-> << [TaskQuotation("AFC-A", "", "IMPORT", "") EXCEPT
                  !.data_version = 0, !.incoterm = "CNF", !.status_history = << >>] >>,
      so |-> << [status |-> 4110, updated |-> 0, data_version |-> 1,
                 company_id |-> "AFC-A", quotation_id |-> ShipmentId("AFCQ-", 1),
                 booking_reference |-> ""] >>,
      wf |-> << [TaskWorkflow("AFC-A",
                    << LegacyTask(1, EXPORT_CLEARANCE, 2, COMPLETED),
                       LegacyTask(2, "VESSEL_DEPARTURE", 3, COMPLETED),
                       LegacyTask(3, "IN_TRANSIT", 4, IN_PROGRESS),
                       LegacyTask(4, "VESSEL_ARRIVAL", 5, PENDING) >>)
                  EXCEPT !.status_history = << >>] >> ]

TaskFixtures ==
    { TaskFixture("FCA", "EXPORT", "", TRUE),
      TaskFixture("FCA", "EXPORT", "BK-1", TRUE),
      TaskFixture("cnf ", "import", "", FALSE),
      TaskFixture("", "EXPORT", "", FALSE),
      LegacyTaskFixture }

\* The files of the stored shipment: one visible, one hidden from customers.
FileEntity(shipment_id, company_id, visibility, created) ==
    [ shipment_order_id |-> shipment_id, company_id |-> company_id,
      visibility |-> visibility, trash |-> FALSE,
      file_location |-> "company/" \o company_id \o "/shipments/bl.pdf", created |-> created ]

TaskInit ==
    \E f \in TaskFixtures :
        /\ Quotation = KindOf(f.id, f.q)
        /\ ShipmentOrder = KindOf(f.id, f.so)
        /\ ShipmentWorkFlow = KindOf(f.id, f.wf)
        /\ CountId = << >>
        /\ clock = 0
        /\ issued = << >>
        /\ last = NoTaskResponse
        /\ proc = [w \in Workers |-> IdleProc]
        /\ Files = [i \in {1, 2} |-> FileEntity(f.id, "AFC-A", i = 1, i)]

\* Task ids a request may name: every stored one and one that does not exist.
RequestTaskIds(shipment_id) ==
    {TaskId(9, 9)} \cup
    (IF shipment_id \in DOMAIN ShipmentWorkFlow
     THEN {ShipmentWorkFlow[shipment_id].workflow_tasks[i].task_id :
             i \in 1..Len(ShipmentWorkFlow[shipment_id].workflow_tasks)}
     ELSE {})

\* ------------------------------------------------------------------------
\* TaskSpec: the task handlers, each as one action
\* ------------------------------------------------------------------------
\* shipment_data.get("incoterm_code") or wf_entity.get("incoterm") or ""
LazyIncoterm(shipment_data, wf_entity) ==
    IF shipment_data.incoterm_code # "" THEN shipment_data.incoterm_code ELSE wf_entity.incoterm

LazyTxnType(shipment_data, wf_entity) ==
    IF shipment_data.transaction_type # "" THEN shipment_data.transaction_type
    ELSE wf_entity.transaction_type

\* The tasks _lazy_init_tasks generates for a workflow entity it has read:
\* << >> when the entity has tasks already or lacks a classifier.
LazyGenerated(shipment_data, wf_entity, now) ==
    IF wf_entity.workflow_tasks # << >> THEN << >>
    ELSE IF LazyIncoterm(shipment_data, wf_entity) = "" \/ LazyTxnType(shipment_data, wf_entity) = ""
    THEN << >>
    ELSE generate_tasks(LazyIncoterm(shipment_data, wf_entity),
                        LazyTxnType(shipment_data, wf_entity), "system", now, now)

\* _lazy_init_tasks, whole: the task list returned and the workflow kind after it
LazyInitTasks(shipment_id, shipment_data, now) ==
    IF shipment_id \notin DOMAIN ShipmentWorkFlow
    THEN [tasks |-> << >>, wf |-> ShipmentWorkFlow]
    ELSE LET wf_entity == ShipmentWorkFlow[shipment_id]
             tasks == LazyGenerated(shipment_data, wf_entity, now)
         IN  IF wf_entity.workflow_tasks # << >>
             THEN [tasks |-> wf_entity.workflow_tasks, wf |-> ShipmentWorkFlow]
             ELSE IF tasks = << >>
             THEN [tasks |-> << >>, wf |-> ShipmentWorkFlow]
             ELSE [tasks |-> tasks,
                   wf |-> Put(ShipmentWorkFlow, shipment_id,
                              [wf_entity EXCEPT !.workflow_tasks = tasks, !.updated = now])]

\* [t for t in tasks if t.get("visibility") != "HIDDEN"]
VisibleTasks(tasks) == LET Keep(t) == t.visibility # "HIDDEN" IN SelectSeq(tasks, Keep)

MigratedTasks(tasks) == [i \in 1..Len(tasks) |-> migrate_task_on_read(tasks[i])]

NotFound(msg) == TaskResponse("NOT_FOUND", msg, << >>, << >>, "")

\* Every task request is one more request served; the kinds it does not
\* touch stay as they are.
TaskRequestFrame ==
    /\ clock < MaxTaskRequests
    /\ clock' = clock + 1
    /\ UNCHANGED <<CountId, issued, proc, Files>>

\* GET /{shipment_id}/tasks
GetShipmentTasks(shipment_id, claims) ==
    /\ TaskRequestFrame
    /\ UNCHANGED <<Quotation, ShipmentOrder>>
    /\ LET found == IF shipment_id \in DOMAIN Quotation THEN << Quotation[shipment_id] >>
                    ELSE IF shipment_id \in DOMAIN ShipmentOrder
                    THEN << ShipmentOrder[shipment_id] >>
                    ELSE << >>
       IN  IF found = << >>
           THEN /\ last' = NotFound("Shipment not found")
                /\ UNCHANGED ShipmentWorkFlow
           ELSE IF claims.account_type = "AFC" /\ found[1].company_id # claims.company_id
           THEN /\ last' = NotFound("Shipment not found")
                /\ UNCHANGED ShipmentWorkFlow
           ELSE LET lazy == LazyInitTasks(shipment_id, found[1], clock + 1)
                    tasks == MigratedTasks(lazy.tasks)
                IN  /\ ShipmentWorkFlow' = lazy.wf
                    /\ last' = TaskResponse("OK", "", IF claims.account_type = "AFC"
                                                      THEN VisibleTasks(tasks) ELSE tasks,
                                            << >>, "")

\* GET /{shipment_id}: the detail by id prefix
GetShipment(shipment_id, claims) ==
    /\ TaskRequestFrame
    /\ UNCHANGED <<Quotation, ShipmentOrder>>
    /\ IF shipment_id.prefix \in {PREFIX_V2_SHIPMENT, "AF2-"}
       THEN IF shipment_id \notin DOMAIN Quotation \/ Quotation[shipment_id].data_version # 2
            THEN /\ last' = NotFound("Shipment not found")
                 /\ UNCHANGED ShipmentWorkFlow
            ELSE IF claims.account_type = "AFC"
                    /\ Quotation[shipment_id].company_id # claims.company_id
            THEN /\ last' = NotFound("Shipment not found")
                 /\ UNCHANGED ShipmentWorkFlow
            ELSE LET lazy == LazyInitTasks(shipment_id, Quotation[shipment_id], clock + 1)
                 IN  /\ ShipmentWorkFlow' = lazy.wf
                     /\ last' = TaskResponse("OK", "Shipment fetched", lazy.tasks,
                                             << Quotation[shipment_id] >>, "")
       ELSE IF shipment_id.prefix = PREFIX_V1_SHIPMENT
       THEN /\ UNCHANGED ShipmentWorkFlow
            /\ IF shipment_id \notin DOMAIN ShipmentOrder
               THEN last' = NotFound("Shipment not found")
               ELSE LET so_entity == ShipmentOrder[shipment_id]
                        quotation_id == so_entity.quotation_id
                        joined == IF so_entity.data_version # 2 /\ quotation_id \in DOMAIN Quotation
                                  THEN << so_entity, Quotation[quotation_id] >>
                                  ELSE << so_entity >>
                    IN  IF claims.account_type = "AFC" /\ so_entity.company_id # claims.company_id
                        THEN last' = NotFound("Shipment not found")
                        ELSE last' = TaskResponse("OK", IF so_entity.data_version = 2
                                                        THEN "Shipment fetched"
                                                        ELSE "V1 Shipment fetched",
                                                  << >>, joined, "")
       ELSE /\ last' = NotFound("Invalid shipment ID format")
            /\ UNCHANGED ShipmentWorkFlow

\* PATCH /{shipment_id}/tasks/{task_id}
UpdateTask(shipment_id, task_id, body, claims) ==
    /\ TaskRequestFrame
    /\ UNCHANGED <<Quotation, ShipmentOrder>>
    /\ LET now == clock + 1
       IN  IF TaskPermission(body, claims) # ""
           THEN /\ last' = TaskResponse("FORBIDDEN", TaskPermission(body, claims), << >>, << >>, "")
                /\ UNCHANGED ShipmentWorkFlow
           ELSE IF TaskEnumCheck(body) # ""
           THEN /\ last' = TaskResponse("BAD_REQUEST", TaskEnumCheck(body), << >>, << >>, "")
                /\ UNCHANGED ShipmentWorkFlow
           ELSE IF shipment_id \notin DOMAIN ShipmentWorkFlow
           THEN /\ last' = NotFound("ShipmentWorkFlow not found")
                /\ UNCHANGED ShipmentWorkFlow
           ELSE
           LET wf_entity == ShipmentWorkFlow[shipment_id]
               tasks == wf_entity.workflow_tasks
               target_idx == FindTask(tasks, task_id)
           IN  IF target_idx = 0
               THEN /\ last' = NotFound("Task not found on shipment")
                    /\ UNCHANGED ShipmentWorkFlow
               ELSE IF BlockedRejected(ApplyTaskMode(tasks[target_idx], body), body)
               THEN /\ last' = TaskResponse("BAD_REQUEST", MsgBlockedMode, << >>, << >>, "")
                    /\ UNCHANGED ShipmentWorkFlow
               ELSE
               LET booking_ref == BookingRefOf(IF shipment_id \in DOMAIN Quotation
                                               THEN << Quotation[shipment_id] >> ELSE << >>)
                   written == TasksAfterPatch(tasks, target_idx, body, claims, now, booking_ref)
               IN  /\ ShipmentWorkFlow' = Put(ShipmentWorkFlow, shipment_id,
                          [wf_entity EXCEPT !.workflow_tasks = written, !.updated = now])
                   /\ last' = TaskResponse("OK", "Task updated", << written[target_idx] >>, << >>,
                                           TaskWarning(tasks, target_idx, body, booking_ref))

\* _maybe_unblock_export_clearance on the tasks read: the first BLOCKED
\* EXPORT_CLEARANCE becomes PENDING when a FREIGHT_BOOKING task is COMPLETED.
MaybeUnblockTasks(tasks, user_id, now) ==
    LET fb_completed == \E i \in 1..Len(tasks) :
                            tasks[i].task_type = FREIGHT_BOOKING /\ tasks[i].status = COMPLETED
        IsBlockedEc(i) == tasks[i].task_type = EXPORT_CLEARANCE /\ tasks[i].status = BLOCKED
    IN  IF fb_completed /\ \E i \in 1..Len(tasks) : IsBlockedEc(i)
        THEN LET first == CHOOSE i \in 1..Len(tasks) :
                              IsBlockedEc(i) /\ \A j \in 1..(i - 1) : ~IsBlockedEc(j)
             IN  [tasks EXCEPT ![first] = [@ EXCEPT !.status = PENDING, !.updated_by = user_id,
                                                    !.updated_at = now]]
        ELSE tasks

\* Merge booking fields: the BL updates drawn carry the waybill number only
\* (<< >> for an absent form field).
QuotationAfterBL(q_entity, waybill_number, now) ==
    [ q_entity EXCEPT
        !.booking = IF waybill_number # << >>
                    THEN [@ EXCEPT !.booking_reference = waybill_number[1]] ELSE @,
        !.updated = now ]

\* For V1: the flat booking_reference on the ShipmentOrder, never tagged data_version 2
ShipmentOrderAfterBL(so_entity, waybill, now) ==
    [ so_entity EXCEPT
        !.booking_reference = waybill,
        !.updated = now,
        !.data_version = IF so_entity.data_version = 2 THEN 0 ELSE so_entity.data_version ]

WaybillInputs == { << >>, << "" >>, << "BK-2" >> }

\* PATCH /{shipment_id}/bl (AF staff only), the whole handler
UpdateFromBL(shipment_id, waybill_number, claims) ==
    /\ TaskRequestFrame
    /\ LET now == clock + 1
       IN  IF claims.account_type # "AFU"
           THEN /\ last' = TaskResponse("FORBIDDEN", "AF staff access required", << >>, << >>, "")
                /\ UNCHANGED <<Quotation, ShipmentOrder, ShipmentWorkFlow>>
           ELSE IF shipment_id \notin DOMAIN Quotation
           THEN /\ last' = NotFound("Shipment not found")
                /\ UNCHANGED <<Quotation, ShipmentOrder, ShipmentWorkFlow>>
           ELSE IF Quotation[shipment_id].trash
           THEN /\ last' = TaskResponse("GONE", "Shipment has been deleted", << >>, << >>, "")
                /\ UNCHANGED <<Quotation, ShipmentOrder, ShipmentWorkFlow>>
           ELSE /\ ShipmentOrder' =
                      IF shipment_id.prefix = PREFIX_V1_SHIPMENT
                         /\ shipment_id \in DOMAIN ShipmentOrder
                         /\ waybill_number # << >> /\ waybill_number[1] # ""
                      THEN Put(ShipmentOrder, shipment_id,
                               ShipmentOrderAfterBL(ShipmentOrder[shipment_id],
                                                    waybill_number[1], now))
                      ELSE ShipmentOrder
                /\ ShipmentWorkFlow' =
                      IF waybill_number # << >> /\ waybill_number[1] # ""
                         /\ shipment_id \in DOMAIN ShipmentWorkFlow
                      THEN LET wf_entity == ShipmentWorkFlow[shipment_id]
                               tasks == MaybeUnblockTasks(wf_entity.workflow_tasks, claims.uid, now)
                           IN  IF tasks # wf_entity.workflow_tasks
                               THEN Put(ShipmentWorkFlow, shipment_id,
                                        [wf_entity EXCEPT !.workflow_tasks = tasks,
                                                          !.updated = now])
                               ELSE ShipmentWorkFlow
                      ELSE ShipmentWorkFlow
                /\ Quotation' = Put(Quotation, shipment_id,
                                    QuotationAfterBL(Quotation[shipment_id], waybill_number, now))
                /\ last' = TaskResponse("OK", "Shipment updated from BL", << >>,
                                        << QuotationAfterBL(Quotation[shipment_id],
                                                            waybill_number, now) >>, "")

GetShipmentTasksAny ==
    \E shipment_id \in RequestIds, claims \in TaskCallers : GetShipmentTasks(shipment_id, claims)

GetShipmentAny ==
    \E shipment_id \in RequestIds, claims \in TaskCallers : GetShipment(shipment_id, claims)

UpdateTaskAny ==
    \E shipment_id \in RequestIds, claims \in TaskCallers, body \in TaskBodies :
        \E task_id \in RequestTaskIds(shipment_id) :
            UpdateTask(shipment_id, task_id, body, claims)

UpdateFromBLAny ==
    \E shipment_id \in RequestIds, waybill_number \in WaybillInputs, claims \in TaskCallers :
        UpdateFromBL(shipment_id, waybill_number, claims)

TaskNext == GetShipmentTasksAny \/ GetShipmentAny \/ UpdateTaskAny \/ UpdateFromBLAny

TaskSpec == TaskInit /\ [][TaskNext]_vars

\* ------------------------------------------------------------------------
\* Properties of the task handlers
\* ------------------------------------------------------------------------
StoredTasks(sid) == ShipmentWorkFlow[sid].workflow_tasks

AllTasks(tasks, P(_)) == \A i \in 1..Len(tasks) : P(tasks[i])

IgnoredIsHiddenPending(t) == t.mode = "IGNORED" => (t.visibility = "HIDDEN" /\ t.status = "PENDING")

\* C11: every stored task, and every task a task request returns, that has
\* mode IGNORED has visibility HIDDEN and status PENDING.
C11_IgnoredHiddenPending ==
    /\ \A sid \in DOMAIN ShipmentWorkFlow : AllTasks(StoredTasks(sid), IgnoredIsHiddenPending)
    /\ AllTasks(last.tasks, IgnoredIsHiddenPending)

BlockedIsAssigned(t) == t.status = "BLOCKED" => t.mode = "ASSIGNED"

\* C12: after every request every stored task with status BLOCKED has mode
\* ASSIGNED, and a patch that sets status BLOCKED on a task whose mode is not
\* ASSIGNED is refused and leaves the workflow as it was.
C12_BlockedOnlyAssigned ==
    [][ /\ \A sid \in DOMAIN ShipmentWorkFlow' :
              AllTasks(ShipmentWorkFlow'[sid].workflow_tasks, BlockedIsAssigned)
        /\ \A sid \in DOMAIN ShipmentWorkFlow, c \in TaskCallers, b \in TaskBodies :
              \A tid \in RequestTaskIds(sid) :
                 ( /\ b.status = "BLOCKED" /\ b.mode = ""
                   /\ FindTask(StoredTasks(sid), tid) # 0
                   /\ StoredTasks(sid)[FindTask(StoredTasks(sid), tid)].mode # "ASSIGNED"
                   /\ UpdateTask(sid, tid, b, c) )
                 => (last'.result # "OK" /\ UNCHANGED ShipmentWorkFlow) ]_vars

\* The shipment's booking.booking_reference.
ShipmentBookingRef(sid) ==
    IF sid \in DOMAIN Quotation THEN Quotation[sid].booking.booking_reference ELSE ""

BlockedExportClearance(t) == t.task_type = "EXPORT_CLEARANCE" /\ t.status = "BLOCKED"

\* C13: an accepted patch that sets a FREIGHT_BOOKING task COMPLETED turns
\* every BLOCKED EXPORT_CLEARANCE task of the workflow PENDING in the write of
\* that patch when the booking reference is non-empty; when it is empty the
\* response carries a warning and every BLOCKED EXPORT_CLEARANCE stays BLOCKED.
C13_FreightBookingUnblocks ==
    [][ \A sid \in DOMAIN ShipmentWorkFlow, c \in TaskCallers, b \in TaskBodies :
          \A tid \in RequestTaskIds(sid) :
             ( /\ b.status = "COMPLETED"
               /\ FindTask(StoredTasks(sid), tid) # 0
               /\ StoredTasks(sid)[FindTask(StoredTasks(sid), tid)].task_type = "FREIGHT_BOOKING"
               /\ UpdateTask(sid, tid, b, c)
               /\ last'.result = "OK" )
             => LET old == StoredTasks(sid)
                    new == ShipmentWorkFlow'[sid].workflow_tasks
                IN  /\ Len(new) = Len(old)
                    /\ new[FindTask(old, tid)].status = "COMPLETED"
                    /\ IF ShipmentBookingRef(sid) # ""
                       THEN /\ last'.warning = ""
                            /\ \A i \in 1..Len(old) :
                                  BlockedExportClearance(old[i]) => new[i].status = "PENDING"
                       ELSE /\ last'.warning # ""
                            /\ \A i \in 1..Len(old) :
                                  BlockedExportClearance(old[i]) => new[i].status = "BLOCKED" ]_vars

\* C13 witness: the patch just answered completed FREIGHT_BOOKING on a shipment
\* with a booking reference, and the same write turned EXPORT_CLEARANCE PENDING.
C13_Witness ==
    /\ last.result = "OK"
    /\ last.warning = ""
    /\ Len(last.tasks) = 1
    /\ last.tasks[1].task_type = "FREIGHT_BOOKING"
    /\ last.tasks[1].status = "COMPLETED"
    /\ \E sid \in DOMAIN ShipmentWorkFlow :
          /\ ShipmentBookingRef(sid) # ""
          /\ \E i \in 1..Len(StoredTasks(sid)) :
                /\ StoredTasks(sid)[i].task_type = "EXPORT_CLEARANCE"
                /\ StoredTasks(sid)[i].status = "PENDING"
                /\ StoredTasks(sid)[i].updated_at = last.tasks[1].updated_at
                /\ StoredTasks(sid)[i].updated_at > 0

\* ------------------------------------------------------------------------
\* TaskStepSpec: the task handlers, one datastore call per step. Two workers
\* serve requests at the same time; no handler opens a transaction.
\* ------------------------------------------------------------------------
\* Requests served in a behaviour of TaskStepSpec.
MaxTaskStepRequests == 2

TaskStepCallers == { c \in TaskCallers : c.uid \in {"uid-ops1", "uid-a1"} }

TaskStepBodies == { TaskBody(COMPLETED, "", ""), TaskBody(IN_PROGRESS, "", "") }

TaskStepWaybills == { << >>, << "BK-2" >> }

\* A created shipment whose FREIGHT_BOOKING is open and whose booking has no
\* reference yet, one whose workflow has no tasks yet, and a legacy one.
TaskStepFixtures ==
    { TaskFixture("FCA", "EXPORT", "", TRUE),
      TaskFixture("FCA", "EXPORT", "", FALSE),
      LegacyTaskFixture }

TaskIdleProc ==
    [ pc |-> "idle", op |-> "", shipment_id |-> NoShipment, task_id |-> TaskId(0, 0),
      body |-> TaskBody("", "", ""), waybill_number |-> << >>,
      claims |-> [uid |-> "", email |-> "", account_type |-> "", role |-> "",
                  company_id |-> ""],
      now |-> 0, q_entity |-> << >>, so_entity |-> << >>, wf_entity |-> << >>,
      tasks |-> << >>, target_idx |-> 0, booking_ref |-> "",
      response |-> NoTaskResponse ]

TaskStepInit ==
    \E f \in TaskStepFixtures :
        /\ Quotation = KindOf(f.id, f.q)
        /\ ShipmentOrder = KindOf(f.id, f.so)
        /\ ShipmentWorkFlow = KindOf(f.id, f.wf)
        /\ CountId = << >>
        /\ clock = 0
        /\ issued = << >>
        /\ last = NoTaskResponse
        /\ proc = [w \in Workers |-> TaskIdleProc]
        /\ Files = << >>

Answer(p, response) == [p EXCEPT !.pc = "done", !.response = response]

\* A worker takes one more request; now = datetime.now() of that request.
TakeRequest(w, p) ==
    /\ Free(w)
    /\ clock < MaxTaskStepRequests
    /\ clock' = clock + 1
    /\ SetProc(w, [p EXCEPT !.now = clock + 1])
    /\ UNCHANGED <<stores, issued, last, Files>>

\* --- GET /{shipment_id}/tasks ------------------------------------------
BeginGetShipmentTasks(w, shipment_id, claims) ==
    TakeRequest(w, [TaskIdleProc EXCEPT !.pc = "gt_get_q", !.op = "tasks",
                        !.shipment_id = shipment_id, !.claims = claims])

\* The company check on the entity found (Quotation, else ShipmentOrder)
TasksCompanyCheck(p, entity) ==
    IF p.claims.account_type = "AFC" /\ entity.company_id # p.claims.company_id
    THEN Answer(p, NotFound("Shipment not found"))
    ELSE [p EXCEPT !.pc = "gt_get_wf", !.q_entity = << entity >>]

\* q_entity = client.get(client.key("Quotation", shipment_id))
GtGetQuotation(w) ==
    LET p == proc[w]
    IN  /\ p.pc = "gt_get_q"
        /\ UNCHANGED <<stores, clock, issued, last, Files>>
        /\ SetProc(w,
            IF p.shipment_id \in DOMAIN Quotation
            THEN TasksCompanyCheck(p, Quotation[p.shipment_id])
            ELSE [p EXCEPT !.pc = "gt_get_so"])

\* q_entity = client.get(client.key("ShipmentOrder", shipment_id))
GtGetShipmentOrder(w) ==
    LET p == proc[w]
    IN  /\ p.pc = "gt_get_so"
        /\ UNCHANGED <<stores, clock, issued, last, Files>>
        /\ SetProc(w,
            IF p.shipment_id \in DOMAIN ShipmentOrder
            THEN TasksCompanyCheck(p, ShipmentOrder[p.shipment_id])
            ELSE Answer(p, NotFound("Shipment not found")))

\* What the tasks endpoint answers with the list _lazy_init_tasks returned
TasksAnswer(p, tasks) ==
    Answer(p, TaskResponse("OK", "", IF p.claims.account_type = "AFC"
                                     THEN VisibleTasks(MigratedTasks(tasks))
                                     ELSE MigratedTasks(tasks), << >>, ""))

\* _lazy_init_tasks: wf_entity = client.get(wf_key), then generate
GtGetWorkflow(w) ==
    LET p == proc[w]
        sid == p.shipment_id
    IN  /\ p.pc = "gt_get_wf"
        /\ UNCHANGED <<stores, clock, issued, last, Files>>
        /\ SetProc(w,
            IF sid \notin DOMAIN ShipmentWorkFlow
            THEN TasksAnswer(p, << >>)
            ELSE IF ShipmentWorkFlow[sid].workflow_tasks # << >>
            THEN TasksAnswer(p, ShipmentWorkFlow[sid].workflow_tasks)
            ELSE LET tasks == LazyGenerated(p.q_entity[1], ShipmentWorkFlow[sid], p.now)
                 IN  IF tasks = << >>
                     THEN TasksAnswer(p, << >>)
                     ELSE [p EXCEPT !.pc = "gt_put_wf", !.tasks = tasks,
                                    !.wf_entity = << ShipmentWorkFlow[sid] >>])

\* _lazy_init_tasks: client.put(wf_entity), the entity as this worker read it
GtPutWorkflow(w) ==
    LET p == proc[w]
    IN  /\ p.pc = "gt_put_wf"
        /\ ShipmentWorkFlow' = Put(ShipmentWorkFlow, p.shipment_id,
               [p.wf_entity[1] EXCEPT !.workflow_tasks = p.tasks, !.updated = p.now])
        /\ SetProc(w, TasksAnswer(p, p.tasks))
        /\ UNCHANGED <<Quotation, ShipmentOrder, CountId, clock, issued, last, Files>>

\* --- PATCH /{shipment_id}/tasks/{task_id} ---------------------------------
\* Permission and enum checks come before the first datastore call.
BeginUpdateTask(w, shipment_id, task_id, body, claims) ==
    LET p == [TaskIdleProc EXCEPT !.op = "task", !.shipment_id = shipment_id,
                                  !.task_id = task_id, !.body = body, !.claims = claims]
    IN  TakeRequest(w,
            IF TaskPermission(body, claims) # ""
            THEN Answer(p, TaskResponse("FORBIDDEN", TaskPermission(body, claims),
                                        << >>, << >>, ""))
            ELSE IF TaskEnumCheck(body) # ""
            THEN Answer(p, TaskResponse("BAD_REQUEST", TaskEnumCheck(body), << >>, << >>, ""))
            ELSE [p EXCEPT !.pc = "ut_get_wf"])

\* wf_entity = client.get(wf_key); the patch is applied to the copy read
UtGetWorkflow(w) ==
    LET p == proc[w]
        sid == p.shipment_id
    IN  /\ p.pc = "ut_get_wf"
        /\ UNCHANGED <<stores, clock, issued, last, Files>>
        /\ SetProc(w,
            IF sid \notin DOMAIN ShipmentWorkFlow
            THEN Answer(p, NotFound("ShipmentWorkFlow not found"))
            ELSE
            LET tasks == ShipmentWorkFlow[sid].workflow_tasks
                target_idx == FindTask(tasks, p.task_id)
            IN  IF target_idx = 0
                THEN Answer(p, NotFound("Task not found on shipment"))
                ELSE IF BlockedRejected(ApplyTaskMode(tasks[target_idx], p.body), p.body)
                THEN Answer(p, TaskResponse("BAD_REQUEST", MsgBlockedMode, << >>, << >>, ""))
                ELSE [p EXCEPT !.wf_entity = << ShipmentWorkFlow[sid] >>,
                               !.target_idx = target_idx,
                               !.pc = IF tasks[target_idx].task_type = FREIGHT_BOOKING
                                         /\ p.body.status = COMPLETED
                                      THEN "ut_get_q" ELSE "ut_put_wf"])

\* q_entity = client.get(client.key("Quotation", shipment_id)): the booking reference
UtGetQuotation(w) ==
    LET p == proc[w]
    IN  /\ p.pc = "ut_get_q"
        /\ UNCHANGED <<stores, clock, issued, last, Files>>
        /\ SetProc(w,
            [p EXCEPT !.pc = "ut_put_wf",
                      !.booking_ref = BookingRefOf(IF p.shipment_id \in DOMAIN Quotation
                                                   THEN << Quotation[p.shipment_id] >>
                                                   ELSE << >>)])

\* client.put(wf_entity): the workflow as read, with the patched task list
UtPutWorkflow(w) ==
    LET p == proc[w]
        tasks == p.wf_entity[1].workflow_tasks
        written == TasksAfterPatch(tasks, p.target_idx, p.body, p.claims, p.now, p.booking_ref)
    IN  /\ p.pc = "ut_put_wf"
        /\ ShipmentWorkFlow' = Put(ShipmentWorkFlow, p.shipment_id,
               [p.wf_entity[1] EXCEPT !.workflow_tasks = written, !.updated = p.now])
        /\ SetProc(w, Answer(p, TaskResponse("OK", "Task updated", << written[p.target_idx] >>,
                                 << >>, TaskWarning(tasks, p.target_idx, p.body, p.booking_ref))))
        /\ UNCHANGED <<Quotation, ShipmentOrder, CountId, clock, issued, last, Files>>

\* --- PATCH /{shipment_id}/bl ----------------------------------------------
Truthy(waybill_number) == waybill_number # << >> /\ waybill_number[1] # ""

\* require_afu, then the V1 detection by prefix
BeginUpdateFromBL(w, shipment_id, waybill_number, claims) ==
    LET p == [TaskIdleProc EXCEPT !.op = "bl", !.shipment_id = shipment_id,
                                  !.waybill_number = waybill_number, !.claims = claims]
    IN  TakeRequest(w,
            IF claims.account_type # "AFU"
            THEN Answer(p, TaskResponse("FORBIDDEN", "AF staff access required",
                                        << >>, << >>, ""))
            ELSE [p EXCEPT !.pc = IF shipment_id.prefix = PREFIX_V1_SHIPMENT
                                  THEN "bl_get_so" ELSE "bl_get_q"])

\* so_entity = client.get(client.key("ShipmentOrder", shipment_id))
BlGetShipmentOrder(w) ==
    LET p == proc[w]
    IN  /\ p.pc = "bl_get_so"
        /\ UNCHANGED <<stores, clock, issued, last, Files>>
        /\ SetProc(w,
            [p EXCEPT !.pc = "bl_get_q",
                      !.so_entity = IF p.shipment_id \in DOMAIN ShipmentOrder
                                    THEN << ShipmentOrder[p.shipment_id] >> ELSE << >>])

\* q_entity = client.get(q_key); the booking fields are merged into the copy
BlGetQuotation(w) ==
    LET p == proc[w]
        sid == p.shipment_id
    IN  /\ p.pc = "bl_get_q"
        /\ UNCHANGED <<stores, clock, issued, last, Files>>
        /\ SetProc(w,
            IF sid \notin DOMAIN Quotation
            THEN Answer(p, NotFound("Shipment not found"))
            ELSE IF Quotation[sid].trash
            THEN Answer(p, TaskResponse("GONE", "Shipment has been deleted", << >>, << >>, ""))
            ELSE [p EXCEPT !.q_entity = << QuotationAfterBL(Quotation[sid], p.waybill_number,
                                                            p.now) >>,
                           !.pc = IF Truthy(p.waybill_number)
                                  THEN "bl_get_wf" ELSE "bl_put_q"])

\* _maybe_unblock_export_clearance: wf_entity = client.get(wf_key)
BlGetWorkflow(w) ==
    LET p == proc[w]
        sid == p.shipment_id
    IN  /\ p.pc = "bl_get_wf"
        /\ UNCHANGED <<stores, clock, issued, last, Files>>
        /\ SetProc(w,
            IF sid \notin DOMAIN ShipmentWorkFlow
            THEN [p EXCEPT !.pc = "bl_put_q"]
            ELSE LET wf_entity == ShipmentWorkFlow[sid]
                     tasks == MaybeUnblockTasks(wf_entity.workflow_tasks, p.claims.uid, p.now)
                 IN  IF tasks = wf_entity.workflow_tasks
                     THEN [p EXCEPT !.pc = "bl_put_q"]
                     ELSE [p EXCEPT !.pc = "bl_put_wf",
                                    !.wf_entity = << [wf_entity EXCEPT
                                                        !.workflow_tasks = tasks,
                                                        !.updated = p.now] >>])

\* _maybe_unblock_export_clearance: client.put(wf_entity)
BlPutWorkflow(w) ==
    LET p == proc[w]
    IN  /\ p.pc = "bl_put_wf"
        /\ ShipmentWorkFlow' = Put(ShipmentWorkFlow, p.shipment_id, p.wf_entity[1])
        /\ SetProc(w, [p EXCEPT !.pc = "bl_put_q"])
        /\ UNCHANGED <<Quotation, ShipmentOrder, CountId, clock, issued, last, Files>>

BlAnswer(p) ==
    Answer(p, TaskResponse("OK", "Shipment updated from BL", << >>, p.q_entity, ""))

\* client.put(q_entity)
BlPutQuotation(w) ==
    LET p == proc[w]
    IN  /\ p.pc = "bl_put_q"
        /\ Quotation' = Put(Quotation, p.shipment_id, p.q_entity[1])
        /\ SetProc(w, IF p.so_entity # << >> /\ Truthy(p.waybill_number)
                      THEN [p EXCEPT !.pc = "bl_put_so"] ELSE BlAnswer(p))
        /\ UNCHANGED <<ShipmentOrder, ShipmentWorkFlow, CountId, clock, issued, last, Files>>

\* client.put(so_entity), V1 only
BlPutShipmentOrder(w) ==
    LET p == proc[w]
    IN  /\ p.pc = "bl_put_so"
        /\ ShipmentOrder' = Put(ShipmentOrder, p.shipment_id,
               ShipmentOrderAfterBL(p.so_entity[1], p.waybill_number[1], p.now))
        /\ SetProc(w, BlAnswer(p))
        /\ UNCHANGED <<Quotation, ShipmentWorkFlow, CountId, clock, issued, last, Files>>

BeginGetShipmentTasksAny ==
    \E w \in Workers, shipment_id \in RequestIds, claims \in TaskStepCallers :
        BeginGetShipmentTasks(w, shipment_id, claims)

BeginUpdateTaskAny ==
    \E w \in Workers, shipment_id \in RequestIds, claims \in TaskStepCallers,
       body \in TaskStepBodies :
        \E task_id \in RequestTaskIds(shipment_id) :
            BeginUpdateTask(w, shipment_id, task_id, body, claims)

BeginUpdateFromBLAny ==
    \E w \in Workers, shipment_id \in RequestIds, waybill_number \in TaskStepWaybills,
       claims \in TaskStepCallers :
        BeginUpdateFromBL(w, shipment_id, waybill_number, claims)

GtGetQuotationAny == \E w \in Workers : GtGetQuotation(w)

GtGetShipmentOrderAny == \E w \in Workers : GtGetShipmentOrder(w)

GtGetWorkflowAny == \E w \in Workers : GtGetWorkflow(w)

GtPutWorkflowAny == \E w \in Workers : GtPutWorkflow(w)

UtGetWorkflowAny == \E w \in Workers : UtGetWorkflow(w)

UtGetQuotationAny == \E w \in Workers : UtGetQuotation(w)

UtPutWorkflowAny == \E w \in Workers : UtPutWorkflow(w)

BlGetShipmentOrderAny == \E w \in Workers : BlGetShipmentOrder(w)

BlGetQuotationAny == \E w \in Workers : BlGetQuotation(w)

BlGetWorkflowAny == \E w \in Workers : BlGetWorkflow(w)

BlPutWorkflowAny == \E w \in Workers : BlPutWorkflow(w)

BlPutQuotationAny == \E w \in Workers : BlPutQuotation(w)

BlPutShipmentOrderAny == \E w \in Workers : BlPutShipmentOrder(w)

TaskStepNext ==
    \/ BeginGetShipmentTasksAny
    \/ GtGetQuotationAny
    \/ GtGetShipmentOrderAny
    \/ GtGetWorkflowAny
    \/ GtPutWorkflowAny
    \/ BeginUpdateTaskAny
    \/ UtGetWorkflowAny
    \/ UtGetQuotationAny
    \/ UtPutWorkflowAny
    \/ BeginUpdateFromBLAny
    \/ BlGetShipmentOrderAny
    \/ BlGetQuotationAny
    \/ BlGetWorkflowAny
    \/ BlPutWorkflowAny
    \/ BlPutQuotationAny
    \/ BlPutShipmentOrderAny

TaskStepSpec == TaskStepInit /\ [][TaskStepNext]_vars

\* ------------------------------------------------------------------------
\* Properties of the task handlers under concurrent requests
\* ------------------------------------------------------------------------
AllAnswered == \A w \in Workers : Free(w)

FreightBookingCompleted(tasks) ==
    \E i \in 1..Len(tasks) : tasks[i].task_type = FREIGHT_BOOKING /\ tasks[i].status = COMPLETED

BlockedExportClearances(tasks) == { i \in 1..Len(tasks) : BlockedExportClearance(tasks[i]) }

\* C14: in every workflow at most one EXPORT_CLEARANCE task is BLOCKED, and
\* once every request has been answered, a workflow whose FREIGHT_BOOKING is
\* COMPLETED on a shipment whose booking reference is set holds no BLOCKED
\* EXPORT_CLEARANCE: the operation that made the second of the two true has
\* unblocked it together with its own change.
C14_UnblockedInSameOperation ==
    \A sid \in DOMAIN ShipmentWorkFlow :
        /\ Cardinality(BlockedExportClearances(StoredTasks(sid))) <= 1
        /\ ( AllAnswered /\ sid \in DOMAIN Quotation
             /\ FreightBookingCompleted(StoredTasks(sid)) /\ ShipmentBookingRef(sid) # "" )
           => BlockedExportClearances(StoredTasks(sid)) = {}

\* ------------------------------------------------------------------------
\* RulesSpec: the rules engine on every classifier pair. One shipment per
\* pair, stored without tasks; the reads generate its tasks from the matrix.
\* ------------------------------------------------------------------------
\* The incoterms of the matrix, two spellings the engine normalises and one
\* code the matrix does not know.
RulesIncoterms == DOMAIN INCOTERM_RULES \cup {"fob", "cnf ", "XXX"}

\* The transaction types, two spellings the engine normalises and one
\* value the matrix does not know.
RulesTransactionTypes == {"EXPORT", "IMPORT", "DOMESTIC", "export", "import", "TRANSIT"}

RulesInit ==
    \E incoterm \in RulesIncoterms, transaction_type \in RulesTransactionTypes :
        LET f == TaskFixture(incoterm, transaction_type, "", FALSE)
        IN  /\ Quotation = KindOf(f.id, f.q)
            /\ ShipmentOrder = KindOf(f.id, f.so)
            /\ ShipmentWorkFlow = KindOf(f.id, f.wf)
            /\ CountId = << >>
            /\ clock = 0
            /\ issued = << >>
            /\ last = NoTaskResponse
            /\ proc = [w \in Workers |-> IdleProc]
            /\ Files = << >>

RulesNext == GetShipmentTasksAny \/ GetShipmentAny

RulesSpec == RulesInit /\ [][RulesNext]_vars

\* The shipments whose tasks the last request has read (and so generated).
TasksRead == IF last.result = "OK" THEN DOMAIN Quotation \cap DOMAIN ShipmentWorkFlow ELSE {}

HasTaskOfType(tasks, task_type) == \E i \in 1..Len(tasks) : tasks[i].task_type = task_type

\* C15: for every (incoterm, transaction type) pair, the status path of a
\* shipment is A exactly when the tasks generated for it include a
\* FREIGHT_BOOKING task, and B otherwise.
C15_PathAIffFreightBooking ==
    \A sid \in TasksRead :
        (get_status_path(IncotermOf(Quotation[sid]), Quotation[sid].transaction_type) = "A")
            <=> HasTaskOfType(StoredTasks(sid), FREIGHT_BOOKING)

\* C16: the tasks generated for a pair are one per task type the matrix lists
\* for it (none for a pair the matrix does not know), each PENDING except
\* EXPORT_CLEARANCE, which is BLOCKED exactly when FREIGHT_BOOKING is listed
\* too, and each ASSIGNED except POL and POD, which are TRACKED.
C16_GeneratedTasksShape ==
    \A sid \in TasksRead :
        LET listed == MatrixTaskTypes(IncotermOf(Quotation[sid]),
                                      Quotation[sid].transaction_type)
            tasks == StoredTasks(sid)
            Listed(tt) == \E k \in 1..Len(listed) : listed[k] = tt
        IN  /\ Len(tasks) = Len(listed)
            /\ \A k \in 1..Len(listed) :
                   Cardinality({i \in 1..Len(tasks) : tasks[i].task_type = listed[k]}) = 1
            /\ \A i \in 1..Len(tasks) :
                   /\ tasks[i].status = "BLOCKED"
                        <=> (tasks[i].task_type = "EXPORT_CLEARANCE" /\ Listed("FREIGHT_BOOKING"))
                   /\ tasks[i].status \in {"BLOCKED", "PENDING"}
                   /\ tasks[i].mode = "TRACKED" <=> tasks[i].task_type \in {"POL", "POD"}
                   /\ tasks[i].mode \in {"TRACKED", "ASSIGNED"}

\* A read has generated a list with a BLOCKED EXPORT_CLEARANCE next to
\* FREIGHT_BOOKING and the two TRACKED port tasks.
C16_Witness ==
    \E sid \in TasksRead :
        LET tasks == StoredTasks(sid)
        IN  /\ \E i \in 1..Len(tasks) : BlockedExportClearance(tasks[i])
            /\ HasTaskOfType(tasks, "FREIGHT_BOOKING")
            /\ \E i \in 1..Len(tasks) : tasks[i].task_type = "POL" /\ tasks[i].mode = "TRACKED"
            /\ \E i \in 1..Len(tasks) : tasks[i].task_type = "POD" /\ tasks[i].mode = "TRACKED"

\* ------------------------------------------------------------------------
\* Order of the tasks
\* ------------------------------------------------------------------------
SortedByLegLevel(tasks) ==
    /\ \A i \in 1..Len(tasks) : tasks[i].leg_level \in 1..8
    /\ \A i \in 1..(Len(tasks) - 1) : tasks[i].leg_level <= tasks[i + 1].leg_level

TaskIdsOf(tasks) == { tasks[i].task_id : i \in 1..Len(tasks) }

\* C18: the first read generates and persists the task list as one atomic
\* step: once every request has been answered, the tasks each read has
\* returned are tasks of the one persisted list, with the same task ids,
\* also when several first reads were served at the same time.
C18_ReadsReturnPersistedList ==
    AllAnswered =>
        \A w \in Workers :
            ( proc[w].op = "tasks" /\ proc[w].response.result = "OK"
              /\ proc[w].shipment_id \in DOMAIN ShipmentWorkFlow )
            => TaskIdsOf(proc[w].response.tasks) \subseteq
                   TaskIdsOf(StoredTasks(proc[w].shipment_id))

\* ------------------------------------------------------------------------
\* ReadSpec: the per-shipment read endpoints, each as one action
\* ------------------------------------------------------------------------
\* The callers of TaskSpec and a customer user of AFC-A with neither the
\* admin nor the manager role.
ReadCallers ==
    TaskCallers \cup
    { [uid |-> "uid-a2", email |-> "a2@a.example", account_type |-> "AFC",
       role |-> "AFC-USER", company_id |-> "AFC-A"] }

\* sorted(history, key=timestamp): a stable sort, by insertion
RECURSIVE InsertByTimestamp(_, _)
InsertByTimestamp(sorted, h) ==
    IF sorted = << >> THEN << h >>
    ELSE IF sorted[Len(sorted)].timestamp <= h.timestamp THEN Append(sorted, h)
    ELSE Append(InsertByTimestamp(SubSeq(sorted, 1, Len(sorted) - 1), h), sorted[Len(sorted)])

RECURSIVE SortByTimestamp(_)
SortByTimestamp(history) ==
    IF history = << >> THEN << >>
    ELSE InsertByTimestamp(SortByTimestamp(SubSeq(history, 1, Len(history) - 1)),
                           history[Len(history)])

\* GET /{shipment_id}/status-history
GetStatusHistory(shipment_id, claims) ==
    /\ TaskRequestFrame
    /\ UNCHANGED <<Quotation, ShipmentOrder, ShipmentWorkFlow>>
    /\ IF shipment_id \notin DOMAIN ShipmentWorkFlow
       THEN last' = NotFound("Shipment workflow not found")
       ELSE IF claims.account_type = "AFC"
               /\ ShipmentWorkFlow[shipment_id].company_id # claims.company_id
       THEN last' = NotFound("Shipment workflow not found")
       ELSE last' = TaskResponse("OK", "", << >>,
                        SortByTimestamp(ShipmentWorkFlow[shipment_id].status_history), "")

RouteNode(port_un_code, sequence, role) ==
    [port_un_code |-> port_un_code, port_name |-> port_un_code, sequence |-> sequence,
     role |-> role]

\* _derive_route_nodes: display-only nodes from the two port codes
DeriveRouteNodes(shipment_data) ==
    LET origin_code == shipment_data.origin_port_un_code
        dest_code == shipment_data.destination_port_un_code
    IN  (IF origin_code # "" THEN << RouteNode(origin_code, 1, "ORIGIN") >> ELSE << >>)
        \o (IF dest_code # ""
            THEN << RouteNode(dest_code, IF origin_code # "" THEN 2 ELSE 1, "DESTINATION") >>
            ELSE << >>)

\* GET /{shipment_id}/route-nodes (the Port kind holds no entity, so the
\* enrichment leaves the nodes as they are)
GetRouteNodes(shipment_id, claims) ==
    /\ TaskRequestFrame
    /\ UNCHANGED <<Quotation, ShipmentOrder, ShipmentWorkFlow>>
    /\ LET found == IF shipment_id \in DOMAIN Quotation THEN << Quotation[shipment_id] >>
                    ELSE IF shipment_id \in DOMAIN ShipmentOrder
                    THEN << ShipmentOrder[shipment_id] >>
                    ELSE << >>
       IN  IF found = << >>
           THEN last' = NotFound("Shipment not found")
           ELSE IF claims.account_type = "AFC" /\ found[1].company_id # claims.company_id
           THEN last' = NotFound("Shipment not found")
           ELSE last' = TaskResponse("OK", "", << >>,
                            IF found[1].route_nodes # << >> THEN found[1].route_nodes
                            ELSE DeriveRouteNodes(found[1]), "")

\* AFC regular users: only visible files
FileHiddenFrom(entity, claims) ==
    /\ claims.account_type = "AFC" /\ claims.role \notin {"AFC-ADMIN", "AFC-M"}
    /\ ~entity.visibility

\* results.sort(key=created, reverse=True) over the file ids kept
RECURSIVE SortByCreatedDesc(_)
SortByCreatedDesc(ids) ==
    IF ids = {} THEN << >>
    ELSE LET newest == CHOOSE i \in ids : \A j \in ids : Files[j].created <= Files[i].created
         IN  << [file_id |-> newest, file |-> Files[newest]] >>
             \o SortByCreatedDesc(ids \ {newest})

\* GET /{shipment_id}/files
ListShipmentFiles(shipment_id, claims) ==
    /\ TaskRequestFrame
    /\ UNCHANGED <<Quotation, ShipmentOrder, ShipmentWorkFlow>>
    /\ last' = TaskResponse("OK", "", << >>,
                   SortByCreatedDesc({ i \in DOMAIN Files :
                       /\ Files[i].shipment_order_id = shipment_id
                       /\ ~Files[i].trash
                       /\ ~FileHiddenFrom(Files[i], claims) }), "")

\* GET /{shipment_id}/files/{file_id}/download: the signed URL of the file location
DownloadShipmentFile(shipment_id, file_id, claims) ==
    /\ TaskRequestFrame
    /\ UNCHANGED <<Quotation, ShipmentOrder, ShipmentWorkFlow>>
    /\ IF file_id \notin DOMAIN Files
       THEN last' = NotFound("File not found")
       ELSE IF Files[file_id].shipment_order_id # shipment_id
       THEN last' = NotFound("File not found on shipment")
       ELSE IF FileHiddenFrom(Files[file_id], claims)
       THEN last' = NotFound("File not found")
       ELSE IF Files[file_id].file_location = ""
       THEN last' = TaskResponse("ERROR", "File location not set", << >>, << >>, "")
       ELSE last' = TaskResponse("OK", "", << >>,
                                 << [download_url |-> Files[file_id].file_location] >>, "")

RequestFileIds == DOMAIN Files \cup {9}

ReadShipmentTasksAny ==
    \E shipment_id \in RequestIds, claims \in ReadCallers : GetShipmentTasks(shipment_id, claims)

ReadShipmentAny ==
    \E shipment_id \in RequestIds, claims \in ReadCallers : GetShipment(shipment_id, claims)

GetStatusHistoryAny ==
    \E shipment_id \in RequestIds, claims \in ReadCallers : GetStatusHistory(shipment_id, claims)

GetRouteNodesAny ==
    \E shipment_id \in RequestIds, claims \in ReadCallers : GetRouteNodes(shipment_id, claims)

ListShipmentFilesAny ==
    \E shipment_id \in RequestIds, claims \in ReadCallers : ListShipmentFiles(shipment_id, claims)

DownloadShipmentFileAny ==
    \E shipment_id \in RequestIds, file_id \in RequestFileIds, claims \in ReadCallers :
        DownloadShipmentFile(shipment_id, file_id, claims)

ReadNext ==
    \/ ReadShipmentTasksAny
    \/ ReadShipmentAny
    \/ GetStatusHistoryAny
    \/ GetRouteNodesAny
    \/ ListShipmentFilesAny
    \/ DownloadShipmentFileAny

ReadSpec == TaskInit /\ [][ReadNext]_vars

\* A customer caller and a stored shipment of another company.
ForeignTo(claims, sid) ==
    /\ claims.account_type = "AFC"
    /\ sid \in DOMAIN Quotation
    /\ Quotation[sid].company_id # claims.company_id

\* C19: every per-shipment read (detail, tasks, route nodes, status history,
\* file list, file download) by a customer caller of a shipment owned by
\* another company answers NOT_FOUND and carries no task, record or file.
C19_ForeignShipmentNotFound ==
    [][ \A sid \in RequestIds, c \in ReadCallers :
          ( /\ ForeignTo(c, sid)
            /\ \/ GetShipment(sid, c)
               \/ GetShipmentTasks(sid, c)
               \/ GetRouteNodes(sid, c)
               \/ GetStatusHistory(sid, c)
               \/ ListShipmentFiles(sid, c)
               \/ \E file_id \in RequestFileIds : DownloadShipmentFile(sid, file_id, c) )
          => ( /\ last'.result = "NOT_FOUND"
               /\ last'.tasks = << >>
               /\ last'.data = << >> ) ]_vars

\* ------------------------------------------------------------------------
\* Hidden tasks
\* ------------------------------------------------------------------------
\* C20: no response to a customer caller carries a HIDDEN task, whichever
\* endpoint returns tasks: the tasks read, the shipment detail, or the
\* response of a task update.
C20_NoHiddenTaskToCustomer ==
    [][ \A sid \in RequestIds, c \in TaskCallers :
          ( /\ c.account_type = "AFC"
            /\ \/ GetShipmentTasks(sid, c)
               \/ GetShipment(sid, c)
               \/ \E b \in TaskBodies, tid \in RequestTaskIds(sid) : UpdateTask(sid, tid, b, c) )
          => \A i \in 1..Len(last'.tasks) : last'.tasks[i].visibility # "HIDDEN" ]_vars

\* ------------------------------------------------------------------------
\* PatchSpec: task updates by every kind of verified caller
\* ------------------------------------------------------------------------
\* _build_claims: account_type is UserAccount.account_type, else
\* UserIAM.account_type, else ""; role is UserIAM.role. The callers of
\* ReadSpec and one whose records carry no account type.
PatchCallers ==
    ReadCallers \cup
    { [uid |-> "uid-x1", email |-> "x1@x.example", account_type |-> "",
       role |-> "", company_id |-> ""] }

PatchTaskAny ==
    \E shipment_id \in RequestIds, claims \in PatchCallers, body \in TaskBodies :
        \E task_id \in RequestTaskIds(shipment_id) :
            UpdateTask(shipment_id, task_id, body, claims)

PatchNext == PatchTaskAny

PatchSpec == TaskInit /\ [][PatchNext]_vars

\* The callers and patches a task update is meant to be applied for.
MayPatch(claims, body) ==
    \/ claims.account_type = "AFU"
    \/ /\ claims.account_type = "AFC"
       /\ claims.role \in {"AFC-ADMIN", "AFC-M"}
       /\ body.visibility = ""

\* C21: a task update by any caller other than AF staff or a company admin or
\* manager whose patch carries no visibility is refused with 403 and leaves
\* the workflow unchanged.
C21_OnlyPermittedCallersPatch ==
    [][ \A sid \in RequestIds, c \in PatchCallers, b \in TaskBodies :
          ~MayPatch(c, b) =>
            \A tid \in RequestTaskIds(sid) :
                UpdateTask(sid, tid, b, c)
                => ( /\ last'.result = "FORBIDDEN"
                     /\ ShipmentWorkFlow' = ShipmentWorkFlow ) ]_vars

\* ------------------------------------------------------------------------
\* ListSpec: the shipment list, the stats counters and the search
\* ------------------------------------------------------------------------
V2_ACTIVE_STATUSES ==
    {STATUS_CONFIRMED, STATUS_BOOKING_PENDING, STATUS_BOOKING_CONFIRMED,
     STATUS_DEPARTED, STATUS_ARRIVED}

V1_STATUS_BOOKING_STARTED == 100

V1_ACTIVE_MIN == 110

\* _resolve_so_status_to_v2: a V1 native code maps through V1_TO_V2_STATUS
\* (default Confirmed); any other code is already a V2 code
V1_NATIVE_CODES == {100, 110, 4110, 10000, -1}

\* core/constants.py V1_TO_V2_STATUS.get(s, STATUS_CONFIRMED): the mapping the
\* list, the stats, the search and the migrator read (it differs from the
\* status update's own _V1_TO_V2 at 100 and has a key for 1)
V1_TO_V2_STATUS(s) ==
    CASE s = 1 -> STATUS_CONFIRMED
      [] s = 100 -> STATUS_BOOKING_PENDING
      [] s = 110 -> STATUS_BOOKING_CONFIRMED
      [] s = 4110 -> STATUS_DEPARTED
      [] s = 10000 -> STATUS_COMPLETED
      [] OTHER -> STATUS_CONFIRMED

V1_TO_V2_STATUS_KEYS == {1, 100, 110, 4110, 10000}

resolve_so_status_to_v2(raw_status) ==
    IF raw_status \in V1_NATIVE_CODES THEN V1_TO_V2_STATUS(raw_status) ELSE raw_status

\* Texts that are searched are sequences of upper-case characters.
Digits == {"0", "1", "2", "3", "4", "5", "6", "7", "8", "9"}

DigitChar(n) ==
    CASE n = 0 -> "0" [] n = 1 -> "1" [] n = 2 -> "2" [] n = 3 -> "3" [] n = 4 -> "4"
      [] n = 5 -> "5" [] n = 6 -> "6" [] n = 7 -> "7" [] n = 8 -> "8" [] OTHER -> "9"

\* str(int(...)): the decimal digits without leading zeros
RECURSIVE NumText(_)
NumText(n) ==
    IF n < 10 THEN << DigitChar(n) >> ELSE Append(NumText(n \div 10), DigitChar(n % 10))

\* f"{n:06d}"
RECURSIVE ZeroPad(_, _)
ZeroPad(text, width) == IF Len(text) >= width THEN text ELSE ZeroPad(<< "0" >> \o text, width)

PrefixText(prefix) ==
    IF prefix = PREFIX_V1_SHIPMENT THEN << "A", "F", "C", "Q", "-" >> ELSE << "A", "F", "-" >>

\* entity.key.name: the prefix and the six-digit number
KeyName(shipment_id) == PrefixText(shipment_id.prefix) \o ZeroPad(NumText(shipment_id.num), 6)

\* needle in hay
Contains(hay, needle) ==
    \E i \in 0..(Len(hay) - Len(needle)) : SubSeq(hay, i + 1, i + Len(needle)) = needle

IsDigit(c) == c \in Digits

\* _id_matches: the query is part of the id, or its digits are part of the
\* id's number without leading zeros
id_matches(shipment_id, q) ==
    LET q_digits == SelectSeq(q, IsDigit)
    IN  \/ Contains(KeyName(shipment_id), q)
        \/ q_digits # << >> /\ Contains(NumText(shipment_id.num), q_digits)

\* _v2_tab_match / _migrated_tab_match (the two differ only in how a missing
\* issued_invoice is read, and the model's flag is always a boolean)
v2_tab_match(tab, entity) ==
    CASE tab = "all" -> TRUE
      [] tab = "active" -> entity.status \in V2_ACTIVE_STATUSES
      [] tab = "completed" -> entity.status = STATUS_COMPLETED
      [] tab = "to_invoice" -> entity.status = STATUS_COMPLETED /\ ~entity.issued_invoice
      [] tab = "draft" -> entity.status \in {STATUS_DRAFT, STATUS_DRAFT_REVIEW}
      [] tab = "cancelled" -> entity.status = STATUS_CANCELLED
      [] OTHER -> TRUE

VALID_TABS == {"all", "active", "completed", "to_invoice", "draft", "cancelled"}

\* _make_v2_summary, _make_migrated_summary, _make_v1_summary: the fields that
\* identify the shipment (the display fields are left out)
Summary(shipment_id, data_version, status, company_id) ==
    [shipment_id |-> shipment_id, data_version |-> data_version, status |-> status,
     company_id |-> company_id]

\* query.fetch(): the matching keys in key order
RECURSIVE KeysInOrder(_)
KeysInOrder(ids) ==
    IF ids = {} THEN << >>
    ELSE LET first == CHOOSE i \in ids : \A j \in ids : i.num <= j.num
         IN  << first >> \o KeysInOrder(ids \ {first})

\* items.sort(key=numeric id, reverse=True): a stable sort, by insertion
RECURSIVE InsertByIdDesc(_, _)
InsertByIdDesc(sorted, s) ==
    IF sorted = << >> THEN << s >>
    ELSE IF sorted[Len(sorted)].shipment_id.num >= s.shipment_id.num THEN Append(sorted, s)
    ELSE Append(InsertByIdDesc(SubSeq(sorted, 1, Len(sorted) - 1), s), sorted[Len(sorted)])

RECURSIVE SortByIdDesc(_)
SortByIdDesc(items) ==
    IF items = << >> THEN << >>
    ELSE InsertByIdDesc(SortByIdDesc(SubSeq(items, 1, Len(items) - 1)), items[Len(items)])

\* effective_company_id: the caller's company for AFC, else the query parameter
EffectiveCompany(claims, company_id) ==
    IF claims.account_type = "AFC" THEN claims.company_id ELSE company_id

InCompany(entity, effective_company_id) ==
    effective_company_id = "" \/ entity.company_id = effective_company_id

\* Quotation where data_version = 2 and trash = False [and company_id = ...]
V2Keys(effective_company_id) ==
    KeysInOrder({k \in DOMAIN Quotation :
                   /\ Quotation[k].data_version = 2
                   /\ Quotation[k].trash = FALSE
                   /\ InCompany(Quotation[k], effective_company_id)})

\* ShipmentOrder where data_version = 2 and trash = False [and company_id = ...]
MigratedKeys(effective_company_id) ==
    KeysInOrder({k \in DOMAIN ShipmentOrder :
                   /\ ShipmentOrder[k].data_version = 2
                   /\ ShipmentOrder[k].trash = FALSE
                   /\ InCompany(ShipmentOrder[k], effective_company_id)})

\* ShipmentOrder where status >= min_status [and company_id = ...], less the
\* records the loops skip for data_version = 2
V1Keys(min_status, effective_company_id) ==
    KeysInOrder({k \in DOMAIN ShipmentOrder :
                   /\ ShipmentOrder[k].status >= min_status
                   /\ InCompany(ShipmentOrder[k], effective_company_id)
                   /\ ShipmentOrder[k].data_version # 2})

\* q_invoice_map.get(sid): the Quotation's issued_invoice, false when absent
QuotationIssued(k) == k \in DOMAIN Quotation /\ Quotation[k].issued_invoice

SummariesOf(keys, Keep(_), Make(_)) ==
    LET kept == SelectSeq(keys, Keep)
    IN  [i \in 1..Len(kept) |-> Make(kept[i])]

V2Summary(k) == Summary(k, 2, Quotation[k].status, Quotation[k].company_id)

MigratedSummary(k) == Summary(k, 2, ShipmentOrder[k].status, ShipmentOrder[k].company_id)

V1Summary(k) ==
    Summary(k, 1, resolve_so_status_to_v2(ShipmentOrder[k].status), ShipmentOrder[k].company_id)

ListItems(tab, effective_company_id) ==
    LET v2 == SummariesOf(V2Keys(effective_company_id),
                          LAMBDA k : v2_tab_match(tab, Quotation[k]), V2Summary)
        migrated_tab == IF tab = "to_invoice" THEN "completed" ELSE tab
        migrated == SummariesOf(MigratedKeys(effective_company_id),
                        LAMBDA k : /\ v2_tab_match(migrated_tab, ShipmentOrder[k])
                                   /\ tab = "to_invoice" => ~QuotationIssued(k),
                        MigratedSummary)
        v1_all == V1Keys(V1_STATUS_BOOKING_STARTED, effective_company_id)
        KeepV1(k) ==
            LET v2_status == resolve_so_status_to_v2(ShipmentOrder[k].status)
            IN  CASE tab = "to_invoice" ->
                       /\ v2_status = STATUS_COMPLETED
                       /\ ~ShipmentOrder[k].issued_invoice
                       /\ ~QuotationIssued(k)
                  [] tab = "active" -> v2_status \in V2_ACTIVE_STATUSES
                  [] tab = "completed" -> v2_status = STATUS_COMPLETED
                  [] OTHER -> TRUE
        v1 == IF tab \in {"draft", "cancelled"} THEN << >>
              ELSE SummariesOf(v1_all, KeepV1, V1Summary)
    IN  SortByIdDesc(v2 \o migrated \o v1)

\* GET /shipments, first page (the stored records fit in one page)
ListShipments(tab, company_id, claims) ==
    /\ UNCHANGED <<stores, clock, issued, proc, Files>>
    /\ IF tab \notin VALID_TABS
       THEN last' = TaskResponse("BAD_REQUEST", "Unrecognised tab value: " \o tab,
                                 << >>, << >>, "")
       ELSE last' = TaskResponse("OK", "", << >>,
                                 ListItems(tab, EffectiveCompany(claims, company_id)), "")

Count(keys, Keep(_)) == Len(SelectSeq(keys, Keep))

StatsOf(effective_company_id) ==
    LET v2 == V2Keys(effective_company_id)
        mig == MigratedKeys(effective_company_id)
        v1 == V1Keys(V1_ACTIVE_MIN, effective_company_id)
        V1Status(k) == resolve_so_status_to_v2(ShipmentOrder[k].status)
        active == Count(v2, LAMBDA k : Quotation[k].status \in V2_ACTIVE_STATUSES)
                  + Count(mig, LAMBDA k : ShipmentOrder[k].status \in V2_ACTIVE_STATUSES)
                  + Count(v1, LAMBDA k : V1Status(k) \in V2_ACTIVE_STATUSES)
        completed == Count(v2, LAMBDA k : Quotation[k].status = STATUS_COMPLETED)
                     + Count(mig, LAMBDA k : ShipmentOrder[k].status = STATUS_COMPLETED)
                     + Count(v1, LAMBDA k : V1Status(k) = STATUS_COMPLETED)
        to_invoice ==
            Count(v2, LAMBDA k : /\ Quotation[k].status = STATUS_COMPLETED
                                 /\ ~Quotation[k].issued_invoice)
            + Count(mig, LAMBDA k : /\ ShipmentOrder[k].status = STATUS_COMPLETED
                                    /\ k \in DOMAIN Quotation
                                    /\ ~Quotation[k].issued_invoice)
            + Count(v1, LAMBDA k : /\ V1Status(k) = STATUS_COMPLETED
                                   /\ ~ShipmentOrder[k].issued_invoice
                                   /\ k \in DOMAIN Quotation
                                   /\ ~Quotation[k].issued_invoice)
        cancelled == Count(v2, LAMBDA k : Quotation[k].status = STATUS_CANCELLED)
                     + Count(mig, LAMBDA k : ShipmentOrder[k].status = STATUS_CANCELLED)
                     + Count(v1, LAMBDA k : V1Status(k) = STATUS_CANCELLED)
        InDraft(s) == s \in {STATUS_DRAFT, STATUS_DRAFT_REVIEW}
        draft == Count(v2, LAMBDA k : InDraft(Quotation[k].status))
                 + Count(mig, LAMBDA k : InDraft(ShipmentOrder[k].status))
                 + Count(v1, LAMBDA k : InDraft(V1Status(k)))
    IN  [active |-> active, completed |-> completed, to_invoice |-> to_invoice,
         draft |-> draft, cancelled |-> cancelled,
         total |-> active + completed + cancelled + draft]

\* GET /shipments/stats
GetShipmentStats(company_id, claims) ==
    /\ UNCHANGED <<stores, clock, issued, proc, Files>>
    /\ last' = TaskResponse("OK", "Shipment stats fetched", << >>,
                            << StatsOf(EffectiveCompany(claims, company_id)) >>, "")

\* Company names, as _batch_company_names reads them
CompanyName(company_id) ==
    CASE company_id = "AFC-A" -> << "A", "C", "M", "E" >>
      [] company_id = "AFC-B" -> << "B", "O", "L", "T" >>
      [] OTHER -> << >>

PortMatches(origin, dest, q) ==
    \/ origin # << >> /\ Contains(origin, q)
    \/ dest # << >> /\ Contains(dest, q)

FirstNonEmpty(a, b) == IF a # << >> THEN a ELSE b

SearchItems(q, search_fields, effective_company_id) ==
    LET v2_entities == V2Keys(effective_company_id)
        v1_orders == V1Keys(V1_STATUS_BOOKING_STARTED, effective_company_id)
        V1SearchSummary(k) ==
            Summary(k, 1, V1_TO_V2_STATUS(ShipmentOrder[k].status),
                    ShipmentOrder[k].company_id)
        v2_by_id == SelectSeq(v2_entities, LAMBDA k : id_matches(k, q))
        V1Port(k) ==
            LET src == IF k \in DOMAIN Quotation THEN Quotation[k] ELSE ShipmentOrder[k]
            IN  PortMatches(
                    FirstNonEmpty(ShipmentOrder[k].origin_port_un_code, src.origin_port),
                    FirstNonEmpty(ShipmentOrder[k].destination_port_un_code,
                                  src.destination_port), q)
        v1_matched ==
            SelectSeq(v1_orders,
                      LAMBDA k : \/ id_matches(k, q)
                                 \/ search_fields = "all" /\ V1Port(k))
        InSeq(k, seq) == \E i \in 1..Len(seq) : seq[i] = k
        v2_by_port ==
            IF search_fields # "all" THEN << >>
            ELSE SelectSeq(v2_entities,
                     LAMBDA k : /\ ~InSeq(k, v2_by_id)
                                /\ PortMatches(Quotation[k].origin_port,
                                               Quotation[k].destination_port, q))
        seen1 == v2_by_id \o v1_matched \o v2_by_port
        fallback ==
            KeysInOrder({k \in DOMAIN Quotation :
                           /\ Quotation[k].has_shipment
                           /\ InCompany(Quotation[k], effective_company_id)
                           /\ Quotation[k].data_version # 2
                           /\ ~InSeq(k, seen1)
                           /\ id_matches(k, q)})
        FallbackSummary(k) ==
            Summary(k, 1, V1_TO_V2_STATUS(Quotation[k].status),
                    IF InSeq(k, v1_orders) THEN ShipmentOrder[k].company_id
                    ELSE Quotation[k].company_id)
        seen2 == seen1 \o fallback
        v2_by_name ==
            IF search_fields # "all" THEN << >>
            ELSE SelectSeq(v2_entities,
                     LAMBDA k : /\ ~InSeq(k, seen2)
                                /\ CompanyName(Quotation[k].company_id) # << >>
                                /\ Contains(CompanyName(Quotation[k].company_id), q))
        v1_by_name ==
            IF search_fields # "all" THEN << >>
            ELSE SelectSeq(v1_orders,
                     LAMBDA k : /\ ~InSeq(k, seen2)
                                /\ CompanyName(ShipmentOrder[k].company_id) # << >>
                                /\ Contains(CompanyName(ShipmentOrder[k].company_id), q))
        All(keys, Make(_)) == [i \in 1..Len(keys) |-> Make(keys[i])]
    IN  SortByIdDesc(All(v2_by_id, V2Summary) \o All(v1_matched, V1SearchSummary)
                     \o All(v2_by_port, V2Summary) \o All(fallback, FallbackSummary)
                     \o All(v2_by_name, V2Summary) \o All(v1_by_name, V1SearchSummary))

\* GET /shipments/search (the stored records are fewer than the limit)
SearchShipments(q, search_fields, claims) ==
    /\ UNCHANGED <<stores, clock, issued, proc, Files>>
    /\ last' = TaskResponse("OK", "", << >>,
                            SearchItems(q, search_fields, EffectiveCompany(claims, "")), "")

\* A record of either kind as the three endpoints read it.
ListEntity(data_version, status, company_id, trash, issued_invoice, has_shipment) ==
    [ data_version |-> data_version, status |-> status, company_id |-> company_id,
      trash |-> trash, issued_invoice |-> issued_invoice, has_shipment |-> has_shipment,
      origin_port_un_code |-> << "M", "Y", "P", "K", "G" >>,
      destination_port_un_code |-> << "S", "G", "S", "I", "N" >>,
      origin_port |-> << >>, destination_port |-> << >> ]

\* The stored shipments: AF-1 created on the platform (Quotation only), AF-2
\* a migrated one (ShipmentOrder with data_version 2 and its Quotation record
\* of the old shape), AFCQ-3 a legacy one (ShipmentOrder and Quotation, both
\* carrying the trash flag) and AFCQ-4 a legacy quotation below the booking
\* threshold. Each is trashed or not, and in one of two statuses.
ListInit ==
    \E t1, t2, t3 \in BOOLEAN, s1 \in {STATUS_CONFIRMED, STATUS_COMPLETED},
       s2 \in {STATUS_DEPARTED, STATUS_CANCELLED}, s3 \in {110, 10000, STATUS_COMPLETED} :
        /\ Quotation =
             (ShipmentId("AF-", 1) :> ListEntity(2, s1, "AFC-A", t1, FALSE, FALSE))
             @@ (ShipmentId("AFCQ-", 3) :> ListEntity(0, s3, "AFC-A", t3, FALSE, TRUE))
             @@ (ShipmentId("AFCQ-", 4) :> ListEntity(0, 1, "AFC-B", t3, FALSE, TRUE))
        /\ ShipmentOrder =
             (ShipmentId("AF-", 2) :> ListEntity(2, s2, "AFC-B", t2, FALSE, FALSE))
             @@ (ShipmentId("AFCQ-", 3) :> ListEntity(0, s3, "AFC-A", t3, FALSE, FALSE))
        /\ ShipmentWorkFlow = << >>
        /\ CountId = << >>
        /\ clock = 0
        /\ issued = << >>
        /\ last = NoTaskResponse
        /\ proc = [w \in Workers |-> IdleProc]
        /\ Files = << >>

ListTabs == VALID_TABS \cup {"archived"}

ListCompanyParams == {"", "AFC-B"}

SearchQueries ==
    { << "A", "F", "-" >>, << "A", "F", "C", "Q" >>, << "0", "0", "3" >>,
      << "0", "0", "4" >>, << "S", "G", "S" >>, << "A", "C", "M", "E" >> }

ListShipmentsAny ==
    \E tab \in ListTabs, company_id \in ListCompanyParams, claims \in ReadCallers :
        ListShipments(tab, company_id, claims)

GetShipmentStatsAny ==
    \E company_id \in ListCompanyParams, claims \in ReadCallers :
        GetShipmentStats(company_id, claims)

SearchShipmentsAny ==
    \E q \in SearchQueries, search_fields \in {"id", "all"}, claims \in ReadCallers :
        SearchShipments(q, search_fields, claims)

ListNext == ListShipmentsAny \/ GetShipmentStatsAny \/ SearchShipmentsAny

ListSpec == ListInit /\ [][ListNext]_vars

\* A shipment is trashed when a record stored under its id carries trash = true.
Trashed(k) ==
    \/ k \in DOMAIN Quotation /\ Quotation[k].trash
    \/ k \in DOMAIN ShipmentOrder /\ ShipmentOrder[k].trash

\* The shipments in a caller's scope that are not trashed.
UntrashedInScope(claims, company_id) ==
    {k \in DOMAIN Quotation \cup DOMAIN ShipmentOrder :
        /\ ~Trashed(k)
        /\ InCompany(IF k \in DOMAIN ShipmentOrder THEN ShipmentOrder[k] ELSE Quotation[k],
                     EffectiveCompany(claims, company_id))}

\* C22: no list page and no search result contains a trashed shipment, and
\* the stats total counts no more than the shipments that are not trashed,
\* for AF staff and for customers, for legacy and for canonical records.
C22_TrashedNeverListed ==
    [][ /\ \A c \in ReadCallers, p \in ListCompanyParams :
             /\ \A tab \in ListTabs :
                  ListShipments(tab, p, c)
                  => \A i \in 1..Len(last'.data) : ~Trashed(last'.data[i].shipment_id)
             /\ GetShipmentStats(p, c)
                  => last'.data[1].total <= Cardinality(UntrashedInScope(c, p))
        /\ \A c \in ReadCallers, q \in SearchQueries, f \in {"id", "all"} :
             SearchShipments(q, f, c)
             => \A i \in 1..Len(last'.data) : ~Trashed(last'.data[i].shipment_id) ]_vars

\* The same for canonical records only: the legacy shipments are not trashed.
C22_CanonicalTrashedNeverListed ==
    [][ (\A k \in DOMAIN Quotation \cup DOMAIN ShipmentOrder :
            k.prefix = PREFIX_V1_SHIPMENT => ~Trashed(k))
        => /\ \A c \in ReadCallers, p \in ListCompanyParams :
                /\ \A tab \in ListTabs :
                     ListShipments(tab, p, c)
                     => \A i \in 1..Len(last'.data) : ~Trashed(last'.data[i].shipment_id)
                /\ GetShipmentStats(p, c)
                     => last'.data[1].total <= Cardinality(UntrashedInScope(c, p))
           /\ \A c \in ReadCallers, q \in SearchQueries, f \in {"id", "all"} :
                SearchShipments(q, f, c)
                => \A i \in 1..Len(last'.data) : ~Trashed(last'.data[i].shipment_id) ]_vars

\* ------------------------------------------------------------------------
\* BlSpec: the BL update with its party fields
\* ------------------------------------------------------------------------
MaxBlRequests == 2

\* A party as parties[...] stores it: absent, or a dict whose name and
\* address are each absent, "" or a text.
Party(name, address) == << [name |-> name, address |-> address] >>

\* parties.get(...) or {}
PartyOrEmpty(party) == IF party = << >> THEN [name |-> << >>, address |-> << >>] ELSE party[1]

\* if (is_force or not <field>) and <given> is not None: <field> = <given>
PartyFieldAlwaysWrites(is_force, current, given) ==
    IF given # << >> THEN given ELSE current

PartyField(is_force, current, given) ==
    IF (is_force \/ ~Truthy(current)) /\ given # << >> THEN given ELSE current

\* The merge of shipper, consignee and notify party into q_entity["parties"]
MergeParties(parties, form) ==
    LET is_force == form.force_update = << "true" >>
        shipper == PartyOrEmpty(parties.shipper)
        consignee == PartyOrEmpty(parties.consignee)
        notify_party == PartyOrEmpty(parties.notify_party)
    IN  [ shipper |->
            IF form.shipper_name # << >> \/ form.shipper_address # << >>
            THEN Party(PartyField(is_force, shipper.name, form.shipper_name),
                       PartyField(is_force, shipper.address, form.shipper_address))
            ELSE parties.shipper,
          consignee |->
            IF form.consignee_name # << >> \/ form.consignee_address # << >>
            THEN Party(PartyField(is_force, consignee.name, form.consignee_name),
                       PartyField(is_force, consignee.address, form.consignee_address))
            ELSE parties.consignee,
          notify_party |->
            IF form.notify_party_name # << >>
            THEN Party(PartyField(is_force, notify_party.name, form.notify_party_name),
                       notify_party.address)
            ELSE parties.notify_party ]

\* The form fields drawn; every other field of the form is left out (None).
BlForm(waybill_number, shipper_name, shipper_address, consignee_name, consignee_address,
       notify_party_name, force_update) ==
    [ waybill_number |-> waybill_number, shipper_name |-> shipper_name,
      shipper_address |-> shipper_address, consignee_name |-> consignee_name,
      consignee_address |-> consignee_address, notify_party_name |-> notify_party_name,
      force_update |-> force_update ]

\* PATCH /{shipment_id}/bl (AF staff only), the whole handler with the party
\* fields: UpdateFromBL with the merged parties written to the Quotation
UpdateFromBLForm(shipment_id, form, claims) ==
    /\ clock < MaxBlRequests
    /\ clock' = clock + 1
    /\ UNCHANGED <<CountId, issued, proc, Files>>
    /\ LET now == clock + 1
           waybill_number == form.waybill_number
       IN  IF claims.account_type # "AFU"
           THEN /\ last' = TaskResponse("FORBIDDEN", "AF staff access required", << >>, << >>, "")
                /\ UNCHANGED <<Quotation, ShipmentOrder, ShipmentWorkFlow>>
           ELSE IF shipment_id \notin DOMAIN Quotation
           THEN /\ last' = NotFound("Shipment not found")
                /\ UNCHANGED <<Quotation, ShipmentOrder, ShipmentWorkFlow>>
           ELSE IF Quotation[shipment_id].trash
           THEN /\ last' = TaskResponse("GONE", "Shipment has been deleted", << >>, << >>, "")
                /\ UNCHANGED <<Quotation, ShipmentOrder, ShipmentWorkFlow>>
           ELSE LET q_entity ==
                        [ QuotationAfterBL(Quotation[shipment_id], waybill_number, now)
                            EXCEPT !.parties = MergeParties(@, form) ]
                IN  /\ ShipmentOrder' =
                          IF shipment_id.prefix = PREFIX_V1_SHIPMENT
                             /\ shipment_id \in DOMAIN ShipmentOrder
                             /\ Truthy(waybill_number)
                          THEN Put(ShipmentOrder, shipment_id,
                                   ShipmentOrderAfterBL(ShipmentOrder[shipment_id],
                                                        waybill_number[1], now))
                          ELSE ShipmentOrder
                    /\ ShipmentWorkFlow' =
                          IF Truthy(waybill_number) /\ shipment_id \in DOMAIN ShipmentWorkFlow
                          THEN LET wf_entity == ShipmentWorkFlow[shipment_id]
                                   tasks == MaybeUnblockTasks(wf_entity.workflow_tasks,
                                                              claims.uid, now)
                               IN  IF tasks # wf_entity.workflow_tasks
                                   THEN Put(ShipmentWorkFlow, shipment_id,
                                            [wf_entity EXCEPT !.workflow_tasks = tasks,
                                                              !.updated = now])
                                   ELSE ShipmentWorkFlow
                          ELSE ShipmentWorkFlow
                    /\ Quotation' = Put(Quotation, shipment_id, q_entity)
                    /\ last' = TaskResponse("OK", "Shipment updated from BL", << >>,
                                            << q_entity >>, "")

\* The parties a stored shipment starts with: none, a shipper with a name
\* and an empty address and a notify party, or all three complete.
BlParties ==
    { [shipper |-> << >>, consignee |-> << >>, notify_party |-> << >>],
      [shipper |-> Party(<< "OLD SHIPPER" >>, << "" >>), consignee |-> << >>,
       notify_party |-> Party(<< "OLD NOTIFY" >>, << >>)],
      [shipper |-> Party(<< "OLD SHIPPER" >>, << "1 OLD ROAD" >>),
       consignee |-> Party(<< "OLD CONSIGNEE" >>, << "2 OLD ROAD" >>),
       notify_party |-> Party(<< >>, << "3 OLD ROAD" >>)] }

BlInit ==
    \E parties \in BlParties :
        /\ Quotation = (ShipmentId("AF-", 1) :>
                          ([parties |-> parties] @@ TaskQuotation("AFC-A", "FOB", "EXPORT", "")))
        /\ ShipmentOrder = << >>
        /\ ShipmentWorkFlow =
             (ShipmentId("AF-", 1) :>
                TaskWorkflow("AFC-A", generate_tasks("FOB", "EXPORT", "ops0@af.example", 0, 0)))
        /\ CountId = << >>
        /\ clock = 0
        /\ issued = << >>
        /\ last = NoTaskResponse
        /\ proc = [w \in Workers |-> IdleProc]
        /\ Files = << >>

\* Texts a form field carries: left out, empty, or a text.
BlTexts(text) == { << >>, << "" >>, << text >> }

BlForms ==
    { BlForm(w, sn, sa, c[1], c[2], nn, f) :
        w \in { << >>, << "BK-2" >> },
        sn \in BlTexts("NEW SHIPPER"), sa \in { << >>, << "1 NEW ROAD" >> },
        c \in { << << >>, << >> >>, << << "NEW CONSIGNEE" >>, << "2 NEW ROAD" >> >> },
        nn \in { << >>, << "NEW NOTIFY" >> },
        f \in { << "false" >>, << "true" >> } }

UpdateFromBLFormAny ==
    \E shipment_id \in RequestIds, form \in BlForms, claims \in TaskCallers :
        UpdateFromBLForm(shipment_id, form, claims)

BlNext == UpdateFromBLFormAny

BlSpec == BlInit /\ [][BlNext]_vars

\* The party fields of a parties dict, each absent, "" or a text.
PartyFields(parties) ==
    << PartyOrEmpty(parties.shipper).name, PartyOrEmpty(parties.shipper).address,
       PartyOrEmpty(parties.consignee).name, PartyOrEmpty(parties.consignee).address,
       PartyOrEmpty(parties.notify_party).name, PartyOrEmpty(parties.notify_party).address >>

\* What the form gives for each party field (nothing for the notify address).
FormFields(form) ==
    << form.shipper_name, form.shipper_address, form.consignee_name,
       form.consignee_address, form.notify_party_name, << >> >>

\* C23: an applied BL update without force_update = "true" leaves every non-empty
\* party field as it was, changes an empty one only to the value given for
\* it, and applied a second time with the same form changes no party.
C23_PartiesFilledOnlyWhenEmpty ==
    [][ last'.result = "OK" =>
        \A sid \in DOMAIN Quotation, form \in BlForms, c \in TaskCallers :
          ( /\ form.force_update # << "true" >>
            /\ c.account_type = "AFU"
            /\ UpdateFromBLForm(sid, form, c) )
          => LET old == PartyFields(Quotation[sid].parties)
                 new == PartyFields(Quotation'[sid].parties)
             IN  /\ \A i \in 1..6 :
                       /\ Truthy(old[i]) => new[i] = old[i]
                       /\ new[i] # old[i] => new[i] = FormFields(form)[i]
                 /\ MergeParties(Quotation'[sid].parties, form) = Quotation'[sid].parties
      ]_vars

\* A BL update has kept the shipper's name and filled the shipper's empty address.
C23_Witness ==
    /\ last.result = "OK"
    /\ last.msg = "Shipment updated from BL"
    /\ \E sid \in DOMAIN Quotation :
          /\ Quotation[sid].parties.shipper = Party(<< "OLD SHIPPER" >>, << "1 NEW ROAD" >>)
          /\ Quotation[sid].parties.notify_party = Party(<< "OLD NOTIFY" >>, << >>)

\* ------------------------------------------------------------------------
\* RouteSpec: saving route nodes and updating a node's timing
\* ------------------------------------------------------------------------
MaxRouteRequests == 2

MaxNodes == 3

\* RouteNodeInput.dict(): the node as the request gives it (no sequence)
RouteNodeInput(port_un_code, role, scheduled_eta, scheduled_etd) ==
    [ port_un_code |-> port_un_code, port_name |-> port_un_code, role |-> role,
      scheduled_eta |-> scheduled_eta, actual_eta |-> << >>,
      scheduled_etd |-> scheduled_etd, actual_etd |-> << >> ]

\* role_order.get(role, 1)
RoleOrder(role) == CASE role = "ORIGIN" -> 0 [] role = "DESTINATION" -> 2 [] OTHER -> 1

\* nodes.sort(key=(role order, sequence)): the request's nodes carry no
\* sequence, so the stable sort orders them by role alone
RECURSIVE InsertByRole(_, _)
InsertByRole(sorted, n) ==
    IF sorted = << >> THEN << n >>
    ELSE IF RoleOrder(sorted[Len(sorted)].role) <= RoleOrder(n.role) THEN Append(sorted, n)
    ELSE Append(InsertByRole(SubSeq(sorted, 1, Len(sorted) - 1), n), sorted[Len(sorted)])

RECURSIVE SortByRole(_)
SortByRole(nodes) ==
    IF nodes = << >> THEN << >>
    ELSE InsertByRole(SortByRole(SubSeq(nodes, 1, Len(nodes) - 1)), nodes[Len(nodes)])

\* _assign_sequences
assign_sequences(nodes) ==
    LET sorted == SortByRole(nodes)
    IN  [i \in 1..Len(sorted) |-> [sequence |-> i] @@ sorted[i]]

\* roles.count(role)
CountRole(nodes, role) == Cardinality({i \in 1..Len(nodes) : nodes[i].role = role})

\* The role validation of save_route_nodes: "" when the roles pass, else the
\* message of the first check that fails
RolesErrorOriginOnly(nodes) ==
    IF CountRole(nodes, "ORIGIN") # 1 THEN "Exactly one ORIGIN node required"
    ELSE IF \E i \in 1..Len(nodes) : nodes[i].role \notin {"ORIGIN", "TRANSHIP", "DESTINATION"}
    THEN "Invalid role"
    ELSE ""

RolesError(nodes) ==
    IF CountRole(nodes, "ORIGIN") # 1 THEN "Exactly one ORIGIN node required"
    ELSE IF CountRole(nodes, "DESTINATION") # 1 THEN "Exactly one DESTINATION node required"
    ELSE IF \E i \in 1..Len(nodes) : nodes[i].role \notin {"ORIGIN", "TRANSHIP", "DESTINATION"}
    THEN "Invalid role"
    ELSE ""

\* q_entity[name] = value when the value is given and, for the save, truthy
SetField(entity, name, value, wanted) ==
    IF wanted THEN (name :> value[1]) @@ entity ELSE entity

RouteFrame ==
    /\ clock < MaxRouteRequests
    /\ clock' = clock + 1
    /\ UNCHANGED <<ShipmentOrder, ShipmentWorkFlow, CountId, issued, proc, Files>>

\* What a handler leaves behind: the response and the Quotation kind.
RouteOutcome(response, quotations) == [last |-> response, Quotation |-> quotations]

RouteRejected(result, msg) ==
    RouteOutcome(TaskResponse(result, msg, << >>, << >>, ""), Quotation)

\* The permission check and the lookups the two handlers share: "" when the
\* request goes on
RouteRefusal(shipment_id, claims) ==
    IF claims.account_type = "AFC" /\ claims.role \notin {"AFC-ADMIN", "AFC-M"}
    THEN "FORBIDDEN"
    ELSE IF shipment_id.prefix = PREFIX_V1_SHIPMENT THEN "BAD_REQUEST"
    ELSE IF shipment_id \notin DOMAIN Quotation THEN "NOT_FOUND"
    ELSE ""

\* save_route_nodes: the response and the record written
SaveOutcome(shipment_id, nodes, claims, now) ==
    LET refusal == RouteRefusal(shipment_id, claims)
    IN  IF refusal # ""
        THEN RouteRejected(refusal, "")
        ELSE IF RolesError(nodes) # ""
        THEN RouteRejected("BAD_REQUEST", RolesError(nodes))
        ELSE LET node_dicts == assign_sequences(nodes)
                 origin == node_dicts[1]
                 destination == node_dicts[Len(node_dicts)]
                 q1 == [Quotation[shipment_id] EXCEPT !.route_nodes = node_dicts,
                                                      !.updated = now]
                 q2 == SetField(q1, "etd", origin.scheduled_etd,
                                Truthy(origin.scheduled_etd))
                 q3 == SetField(q2, "eta", destination.scheduled_eta,
                                Truthy(destination.scheduled_eta))
             IN  RouteOutcome(TaskResponse("OK", "", << >>, node_dicts, ""),
                              Put(Quotation, shipment_id, q3))

\* PUT /{shipment_id}/route-nodes
SaveRouteNodes(shipment_id, nodes, claims) ==
    /\ RouteFrame
    /\ LET outcome == SaveOutcome(shipment_id, nodes, claims, clock + 1)
       IN  /\ Quotation' = outcome.Quotation
           /\ last' = outcome.last

\* RouteNodeTimingUpdate
TimingBody(scheduled_eta, actual_eta, scheduled_etd, actual_etd) ==
    [ scheduled_eta |-> scheduled_eta, actual_eta |-> actual_eta,
      scheduled_etd |-> scheduled_etd, actual_etd |-> actual_etd ]

Given(current, given) == IF given # << >> THEN given ELSE current

\* update_route_node_timing: the response and the record written
TimingOutcome(shipment_id, sequence, body, claims, now) ==
    LET refusal == RouteRefusal(shipment_id, claims)
    IN  IF refusal # ""
        THEN RouteRejected(refusal, "")
        ELSE LET q_entity == Quotation[shipment_id]
                 nodes == q_entity.route_nodes
                 at == {i \in 1..Len(nodes) : nodes[i].sequence = sequence}
             IN  IF nodes = << >>
                 THEN RouteRejected("BAD_REQUEST", "No route nodes saved")
                 ELSE IF at = {}
                 THEN RouteRejected("NOT_FOUND", "Route node not found")
                 ELSE LET i == CHOOSE j \in at : \A k \in at : j <= k
                          target ==
                            [ nodes[i] EXCEPT
                                !.scheduled_eta = Given(@, body.scheduled_eta),
                                !.actual_eta = Given(@, body.actual_eta),
                                !.scheduled_etd = Given(@, body.scheduled_etd),
                                !.actual_etd = Given(@, body.actual_etd) ]
                          q1 == [q_entity EXCEPT !.route_nodes = [nodes EXCEPT ![i] = target],
                                                 !.updated = now]
                          q2 == SetField(q1, "etd", body.scheduled_etd,
                                         target.role = "ORIGIN"
                                         /\ body.scheduled_etd # << >>)
                          q3 == SetField(q2, "eta", body.scheduled_eta,
                                         target.role = "DESTINATION"
                                         /\ body.scheduled_eta # << >>)
                      IN  RouteOutcome(TaskResponse("OK", "", << >>, << target >>, ""),
                                       Put(Quotation, shipment_id, q3))

\* PATCH /{shipment_id}/route-nodes/{sequence}
UpdateRouteNodeTiming(shipment_id, sequence, body, claims) ==
    /\ RouteFrame
    /\ LET outcome == TimingOutcome(shipment_id, sequence, body, claims, clock + 1)
       IN  /\ Quotation' = outcome.Quotation
           /\ last' = outcome.last

RouteRoles == {"ORIGIN", "TRANSHIP", "DESTINATION", "VIA"}

RoutePort(i) == CASE i = 1 -> "MYPKG" [] i = 2 -> "SGSIN" [] i = 3 -> "CNSHA" [] OTHER -> "VNSGN"

\* The node lists of a request: up to MaxNodes nodes of any role, the i-th at
\* the i-th port, the first one with or without a scheduled departure.
RouteNodeLists ==
    UNION { { [i \in 1..n |-> RouteNodeInput(RoutePort(i), roles[i], << >>,
                                             IF i = 1 THEN etd ELSE << >>)] :
                roles \in [1..n -> RouteRoles], etd \in { << >>, << "2026-01-05" >> } } :
            n \in 0..MaxNodes }

TimingBodies ==
    { TimingBody(<< >>, << >>, << >>, << >>),
      TimingBody(<< "2026-02-01" >>, << >>, << >>, << >>),
      TimingBody(<< >>, << >>, << "2026-01-09" >>, << "2026-01-10" >>),
      TimingBody(<< "" >>, << "2026-02-02" >>, << "" >>, << >>) }

SaveRouteNodesAny ==
    \E shipment_id \in RequestIds, nodes \in RouteNodeLists, claims \in ReadCallers :
        SaveRouteNodes(shipment_id, nodes, claims)

UpdateRouteNodeTimingAny ==
    \E shipment_id \in RequestIds, sequence \in 0..(MaxNodes + 1), body \in TimingBodies,
       claims \in ReadCallers :
        UpdateRouteNodeTiming(shipment_id, sequence, body, claims)

RouteNext == SaveRouteNodesAny \/ UpdateRouteNodeTimingAny

RouteSpec == TaskInit /\ [][RouteNext]_vars

\* One ORIGIN, one DESTINATION, and the sequences 1..N in order.
WellFormedRoute(nodes) ==
    /\ CountRole(nodes, "ORIGIN") = 1
    /\ CountRole(nodes, "DESTINATION") = 1
    /\ \A i \in 1..Len(nodes) : nodes[i].sequence = i

StoredRoutesWellFormed ==
    \A sid \in DOMAIN Quotation :
        Quotation[sid].route_nodes # << >> => WellFormedRoute(Quotation[sid].route_nodes)

\* The node lists with no or several ORIGIN or DESTINATION nodes.
BadNodeLists ==
    {nodes \in RouteNodeLists :
        CountRole(nodes, "ORIGIN") # 1 \/ CountRole(nodes, "DESTINATION") # 1}

\* In the present state a save of such a list, by any caller for any
\* shipment, is answered with a refusal and writes nothing.
SaveRejectsBadRoles ==
    \A sid \in RequestIds, c \in ReadCallers, nodes \in BadNodeLists :
        LET outcome == SaveOutcome(sid, nodes, c, clock + 1)
        IN  /\ outcome.last.result # "OK"
            /\ outcome.Quotation = Quotation

\* C24: every stored set of route nodes has exactly one ORIGIN, exactly one
\* DESTINATION and the sequences 1..N, after any saves and timing updates,
\* and a save with no or several ORIGIN or DESTINATION nodes is rejected
\* and leaves the store unchanged.
C24_RouteNodesWellFormed == StoredRoutesWellFormed /\ SaveRejectsBadRoles

\* A timing update has been applied to a node of a stored three-node route.
C24_Witness ==
    /\ last.result = "OK"
    /\ Len(last.data) = 1
    /\ \E sid \in DOMAIN Quotation :
          /\ Len(Quotation[sid].route_nodes) = 3
          /\ \E i \in 1..3 : /\ Quotation[sid].route_nodes[i] = last.data[1]
                             /\ last.data[1].actual_etd = << "2026-01-10" >>

\* ------------------------------------------------------------------------
\* MigrateSpec: scripts/migrate_v1_to_v2.py, run after run, batch by batch
\* ------------------------------------------------------------------------
\* 500 in the script; here a batch holds one entity, so that every kind is
\* written in several batches.
WRITE_CHUNK_SIZE == 1

MaxRuns == 3

MaxInterrupts == 1

\* _derive_status with a ShipmentOrder: its status through V1_TO_V2_STATUS, a
\* V2 code passed through, else Confirmed
derive_status(shipment_order) ==
    LET raw == shipment_order.status
    IN  IF raw \in V1_TO_V2_STATUS_KEYS THEN V1_TO_V2_STATUS(raw)
        ELSE IF raw \in {STATUS_CONFIRMED, STATUS_BOOKING_PENDING, STATUS_BOOKING_CONFIRMED,
                         STATUS_DEPARTED, STATUS_COMPLETED, STATUS_CANCELLED}
        THEN raw
        ELSE STATUS_CONFIRMED

\* _afcq_to_af
afcq_to_af(afcq_id) == ShipmentId(PREFIX_V2_SHIPMENT, afcq_id.num)

\* A Quotation or ShipmentOrder as the migrator reads and writes it.
MigEntity(data_version, migrated_from_v1, status, issued_invoice, company_id, ts) ==
    [ data_version |-> data_version, migrated_from_v1 |-> migrated_from_v1,
      migration_timestamp |-> ts, status |-> status, issued_invoice |-> issued_invoice,
      trash |-> FALSE, company_id |-> company_id, updated |-> ts ]

\* assemble_v2_record: the fields that identify, classify and date the record
assemble_v2_record(quotation, shipment_order, issued_invoice, migration_ts) ==
    MigEntity(2, TRUE, derive_status(shipment_order), issued_invoice,
              IF shipment_order.company_id # "" THEN shipment_order.company_id
              ELSE quotation.company_id,
              migration_ts)

\* Step 1: a number used by an AF- Quotation of data_version 2 and by an
\* AFCQ- ShipmentOrder
Collision ==
    LET af_nums == {k.num : k \in {q \in DOMAIN Quotation :
                                      /\ Quotation[q].data_version = 2
                                      /\ q.prefix = PREFIX_V2_SHIPMENT}}
        afcq_nums == {k.num : k \in {o \in DOMAIN ShipmentOrder :
                                        o.prefix = PREFIX_V1_SHIPMENT}}
    IN  af_nums \cap afcq_nums # {}

\* Step 2: the AFCQ- Quotations that are not data_version 2
V1Quotations ==
    {k \in DOMAIN Quotation : Quotation[k].data_version # 2 /\ k.prefix = PREFIX_V1_SHIPMENT}

\* The AF- keys that exist with data_version 2 and migrated_from_v1
AlreadyMigrated ==
    {k \in DOMAIN Quotation : Quotation[k].data_version = 2 /\ Quotation[k].migrated_from_v1}

\* Steps 1 to 3, every id planned whatever is stored already
MigrationPlanUnguarded(migration_ts) ==
    LET ids == KeysInOrder({k \in V1Quotations : k \in DOMAIN ShipmentOrder})
    IN  [i \in 1..Len(ids) |->
           [ afcq_id |-> ids[i], af_id |-> afcq_to_af(ids[i]),
             record |-> assemble_v2_record(
                            Quotation[ids[i]], ShipmentOrder[ids[i]],
                            ShipmentOrder[ids[i]].issued_invoice
                            \/ Quotation[ids[i]].issued_invoice, migration_ts) ]]

\* Steps 1 to 3: nothing on a collision; else the records assembled for the
\* ids not migrated yet that have a ShipmentOrder
MigrationPlan(migration_ts) ==
    IF Collision THEN << >>
    ELSE LET ids == KeysInOrder({k \in V1Quotations :
                                    /\ afcq_to_af(k) \notin AlreadyMigrated
                                    /\ k \in DOMAIN ShipmentOrder})
         IN  [i \in 1..Len(ids) |->
                [ afcq_id |-> ids[i], af_id |-> afcq_to_af(ids[i]),
                  record |-> assemble_v2_record(
                                 Quotation[ids[i]], ShipmentOrder[ids[i]],
                                 ShipmentOrder[ids[i]].issued_invoice
                                 \/ Quotation[ids[i]].issued_invoice, migration_ts) ]]

\* Step 4: the workflows to write under the new keys
WorkflowsToRekey(v2_records) ==
    LET kept == SelectSeq(v2_records,
                    LAMBDA r : /\ r.afcq_id \in DOMAIN ShipmentWorkFlow
                               /\ r.af_id \notin DOMAIN ShipmentWorkFlow)
    IN  [i \in 1..Len(kept) |->
           [ key |-> kept[i].af_id,
             entity |-> [ShipmentWorkFlow[kept[i].afcq_id] EXCEPT
                            !.shipment_id = kept[i].af_id] ]]

\* Step 5: the files that reference a migrated AFCQ- id
RECURSIVE FileKeysInOrder(_)
FileKeysInOrder(ids) ==
    IF ids = {} THEN << >>
    ELSE LET first == CHOOSE i \in ids : \A j \in ids : i <= j
         IN  << first >> \o FileKeysInOrder(ids \ {first})

FilesToUpdate(v2_records) ==
    LET AfOf(afcq_id) ==
            (CHOOSE i \in 1..Len(v2_records) : v2_records[i].afcq_id = afcq_id)
        keys == FileKeysInOrder({f \in DOMAIN Files :
                    \E i \in 1..Len(v2_records) :
                        Files[f].shipment_order_id = v2_records[i].afcq_id})
    IN  [i \in 1..Len(keys) |->
           [ key |-> keys[i],
             entity |-> [Files[keys[i]] EXCEPT
                           !.shipment_order_id =
                              v2_records[AfOf(Files[keys[i]].shipment_order_id)].af_id] ]]

\* Step 6: the count-id entries of the new keys
CountIdsToRegister(v2_records, migration_ts) ==
    [i \in 1..Len(v2_records) |->
       [ key |-> v2_records[i].af_id,
         entity |-> [countid |-> v2_records[i].afcq_id.num, created |-> migration_ts,
                     migrated_from_v1 |-> TRUE] ]]

\* The job: where it is, what it planned, how much of the kind at hand is
\* written, and how its runs ended so far.
Job(pc, commit, quotations, workflows, files, countids, written, runs, interrupts,
    committed, ended) ==
    [ pc |-> pc, commit |-> commit, v2_records |-> quotations,
      wf_new_entities |-> workflows, file_entities_to_update |-> files,
      countid_entities |-> countids, written |-> written, runs |-> runs,
      interrupts |-> interrupts, committed |-> committed, ended |-> ended ]

IdleJob(runs, interrupts, committed, ended) ==
    Job("idle", FALSE, << >>, << >>, << >>, << >>, 0, runs, interrupts, committed, ended)

\* The kinds Step 7 writes, in its order, and the first of them at or after
\* a kind that has something to write
NextPhase(job, from) ==
    IF from <= 1 /\ job.v2_records # << >> THEN "write_quotations"
    ELSE IF from <= 2 /\ job.wf_new_entities # << >> THEN "write_workflows"
    ELSE IF from <= 3 /\ job.file_entities_to_update # << >> THEN "write_files"
    ELSE IF from <= 4 /\ job.countid_entities # << >> THEN "write_countids"
    ELSE "idle"

\* python scripts/migrate_v1_to_v2.py [--commit]: Steps 1 to 6, which read
RunMigrator(commit) ==
    /\ proc.pc = "idle"
    /\ proc.runs < MaxRuns
    /\ clock' = clock + 1
    /\ UNCHANGED <<stores, issued, last, Files>>
    /\ LET migration_ts == clock + 1
           v2_records == MigrationPlan(migration_ts)
           planned == Job("planned", commit, v2_records, WorkflowsToRekey(v2_records),
                          FilesToUpdate(v2_records),
                          CountIdsToRegister(v2_records, migration_ts), 0,
                          proc.runs + 1, proc.interrupts, proc.committed, proc.ended)
       IN  IF Collision /\ v2_records = << >>
           THEN proc' = IdleJob(proc.runs + 1, proc.interrupts, proc.committed, "aborted")
           ELSE IF ~commit
           THEN proc' = IdleJob(proc.runs + 1, proc.interrupts, proc.committed, "dry")
           ELSE IF v2_records = << >>
           THEN proc' = IdleJob(proc.runs + 1, proc.interrupts, proc.committed + 1, "done")
           ELSE proc' = [planned EXCEPT !.pc = NextPhase(planned, 1)]

\* One put_multi of Step 7 done: on to the next batch, the next kind or the end
AfterBatch(all, from) ==
    LET written == proc.written + WRITE_CHUNK_SIZE
    IN  IF written < Len(all)
        THEN proc' = [proc EXCEPT !.written = written]
        ELSE IF NextPhase(proc, from + 1) = "idle"
        THEN proc' = IdleJob(proc.runs, proc.interrupts, proc.committed + 1, "done")
        ELSE proc' = [proc EXCEPT !.pc = NextPhase(proc, from + 1), !.written = 0]

\* The entities of one batch put into a kind
RECURSIVE PutBatch(_, _, _, _)
PutBatch(kind, all, from, to) ==
    IF from > to \/ from > Len(all) THEN kind
    ELSE PutBatch(Put(kind, all[from].key, all[from].entity), all, from + 1, to)

WriteQuotationBatch ==
    /\ proc.pc = "write_quotations"
    /\ Quotation' =
         PutBatch(Quotation,
                  [i \in 1..Len(proc.v2_records) |->
                     [key |-> proc.v2_records[i].af_id, entity |-> proc.v2_records[i].record]],
                  proc.written + 1, proc.written + WRITE_CHUNK_SIZE)
    /\ AfterBatch(proc.v2_records, 1)
    /\ UNCHANGED <<ShipmentOrder, ShipmentWorkFlow, CountId, clock, issued, last, Files>>

WriteWorkflowBatch ==
    /\ proc.pc = "write_workflows"
    /\ ShipmentWorkFlow' = PutBatch(ShipmentWorkFlow, proc.wf_new_entities,
                                   proc.written + 1, proc.written + WRITE_CHUNK_SIZE)
    /\ AfterBatch(proc.wf_new_entities, 2)
    /\ UNCHANGED <<Quotation, ShipmentOrder, CountId, clock, issued, last, Files>>

WriteFilesBatch ==
    /\ proc.pc = "write_files"
    /\ Files' = PutBatch(Files, proc.file_entities_to_update,
                        proc.written + 1, proc.written + WRITE_CHUNK_SIZE)
    /\ AfterBatch(proc.file_entities_to_update, 3)
    /\ UNCHANGED <<stores, clock, issued, last>>

WriteCountIdBatch ==
    /\ proc.pc = "write_countids"
    /\ CountId' = PutBatch(CountId, proc.countid_entities,
                          proc.written + 1, proc.written + WRITE_CHUNK_SIZE)
    /\ AfterBatch(proc.countid_entities, 4)
    /\ UNCHANGED <<Quotation, ShipmentOrder, ShipmentWorkFlow, clock, issued, last, Files>>

\* The process is stopped between two batches.
Interrupt ==
    /\ proc.pc # "idle"
    /\ proc.interrupts < MaxInterrupts
    /\ proc' = IdleJob(proc.runs, proc.interrupts + 1, proc.committed, "interrupted")
    /\ UNCHANGED <<stores, clock, issued, last, Files>>

\* The legacy records before the first run: AFCQ-1 with ShipmentOrder,
\* workflow and a file, AFCQ-2 with ShipmentOrder and a file, AFCQ-3 a
\* quotation that never became a shipment, and AF-7 created on the platform.
MigrateInit ==
    \E s1 \in {110, 4110, 10000}, s2 \in {100, STATUS_DEPARTED}, issued_q \in BOOLEAN :
        /\ Quotation =
             (ShipmentId("AFCQ-", 1) :> MigEntity(0, FALSE, 1, issued_q /\ s1 = 10000, "AFC-A", 0))
             @@ (ShipmentId("AFCQ-", 2) :> MigEntity(0, FALSE, 1, FALSE, "AFC-B", 0))
             @@ (ShipmentId("AFCQ-", 3) :> MigEntity(0, FALSE, 1, FALSE, "AFC-B", 0))
             @@ (ShipmentId("AF-", 7) :> MigEntity(2, FALSE, STATUS_CONFIRMED, FALSE, "AFC-A", 0))
        /\ ShipmentOrder =
             (ShipmentId("AFCQ-", 1) :> MigEntity(0, FALSE, s1, FALSE, "AFC-A", 0))
             @@ (ShipmentId("AFCQ-", 2) :> MigEntity(0, FALSE, s2, FALSE, "", 0))
        /\ ShipmentWorkFlow =
             (ShipmentId("AFCQ-", 1) :>
                ([shipment_id |-> ShipmentId("AFCQ-", 1)] @@ TaskWorkflow("AFC-A", << >>)))
             @@ (ShipmentId("AF-", 7) :>
                ([shipment_id |-> ShipmentId("AF-", 7)] @@ TaskWorkflow("AFC-A", << >>)))
        /\ CountId = (ShipmentId("AF-", 7) :>
                        [countid |-> 7, created |-> 0, migrated_from_v1 |-> FALSE])
        /\ clock = 0
        /\ issued = << >>
        /\ last = NoTaskResponse
        /\ proc = IdleJob(0, 0, 0, "")
        /\ Files = (1 :> FileEntity(ShipmentId("AFCQ-", 1), "AFC-A", TRUE, 1))
                   @@ (2 :> FileEntity(ShipmentId("AFCQ-", 2), "AFC-B", TRUE, 2))
                   @@ (3 :> FileEntity(ShipmentId("AF-", 7), "AFC-A", TRUE, 3))

RunMigratorAny == \E commit \in BOOLEAN : RunMigrator(commit)

MigrateNext ==
    \/ RunMigratorAny
    \/ WriteQuotationBatch
    \/ WriteWorkflowBatch
    \/ WriteFilesBatch
    \/ WriteCountIdBatch
    \/ Interrupt

MigrateSpec == MigrateInit /\ [][MigrateNext]_vars

\* C25: once a run with --commit has gone through to its end, no later step
\* of any run writes a record: no canonical record is added and none of the
\* records of that run is changed.
C25_SecondRunWritesNothing ==
    [][ proc.committed >= 1 => (stores' = stores /\ Files' = Files) ]_vars

\* A second run has ended after a first run with --commit that wrote AF-1.
C25_Witness ==
    /\ proc.pc = "idle"
    /\ proc.committed >= 1
    /\ proc.interrupts = 0
    /\ proc.runs >= 2
    /\ proc.ended \in {"aborted", "done"}
    /\ ShipmentId("AF-", 1) \in AlreadyMigrated

\* Every migrated AF- record has the workflow of its AFCQ- record under its
\* own key, no file references its AFCQ- id, and it has a count-id entry.
AuxiliaryRekeyed ==
    \A af \in AlreadyMigrated :
        LET afcq == ShipmentId(PREFIX_V1_SHIPMENT, af.num)
        IN  /\ afcq \in DOMAIN ShipmentWorkFlow => af \in DOMAIN ShipmentWorkFlow
            /\ \A f \in DOMAIN Files : Files[f].shipment_order_id # afcq
            /\ af \in DOMAIN CountId

\* C26: whenever the last run has ended by itself (not stopped between two
\* batches), the auxiliary records of every migrated record are re-keyed.
C26_AuxiliaryRekeyed ==
    (proc.pc = "idle" /\ proc.ended \in {"done", "aborted"}) => AuxiliaryRekeyed

\* The same where no run was ever stopped.
C26_RekeyedWithoutInterrupt ==
    (proc.pc = "idle" /\ proc.interrupts = 0) => AuxiliaryRekeyed

\* A run has gone through to its end and re-keyed the workflow, the files
\* and the count-id entries of AF-1 and AF-2.
C26_Witness ==
    /\ proc.pc = "idle"
    /\ proc.ended = "done"
    /\ {ShipmentId("AF-", 1), ShipmentId("AF-", 2)} \subseteq AlreadyMigrated
    /\ AuxiliaryRekeyed

\* ------------------------------------------------------------------------
\* InvoiceSpec: status updates and scripts/fix_issued_invoice.py
\* ------------------------------------------------------------------------
\* FIX_IDS: the orders the script marks as invoiced (the first of the five)
FIX_IDS == { ShipmentId("AFCQ-", 378) }

WithIssuedInvoice(entity, issued_invoice) == ("issued_invoice" :> issued_invoice) @@ entity

\* main of fix_issued_invoice.py: issued_invoice = True on the Quotation and
\* the ShipmentOrder of every listed id that exists, written unless DRY_RUN
FixIssuedInvoice(dry_run) ==
    /\ Quotation' =
         IF dry_run THEN Quotation
         ELSE [k \in DOMAIN Quotation |->
                 IF k \in FIX_IDS THEN [Quotation[k] EXCEPT !.issued_invoice = TRUE]
                 ELSE Quotation[k]]
    /\ ShipmentOrder' =
         IF dry_run THEN ShipmentOrder
         ELSE [k \in DOMAIN ShipmentOrder |->
                 IF k \in FIX_IDS THEN [ShipmentOrder[k] EXCEPT !.issued_invoice = TRUE]
                 ELSE ShipmentOrder[k]]
    /\ UNCHANGED <<ShipmentWorkFlow, CountId, clock, issued, last, proc, Files>>

\* A canonical shipment, departed or completed, and the completed legacy
\* order AFCQ-378; only completed shipments are marked as invoiced.
InvoiceInit ==
    \E status \in {STATUS_DEPARTED, STATUS_COMPLETED}, invoiced \in BOOLEAN,
       invoiced_q \in BOOLEAN, invoiced_so \in BOOLEAN :
        LET v2 == V2Fixture("FOB", "EXPORT", status)
            v1 == V1Fixture("", "FOB", "EXPORT", 10000, 1, FALSE)
        IN  /\ Quotation =
                 (v2.id :> WithIssuedInvoice(v2.q, invoiced /\ status = STATUS_COMPLETED))
                 @@ (ShipmentId("AFCQ-", 378) :> WithIssuedInvoice(v1.q, invoiced_q))
            /\ ShipmentOrder =
                 (ShipmentId("AFCQ-", 378) :> WithIssuedInvoice(v1.so[1], invoiced_so))
            /\ ShipmentWorkFlow = KindOf(v2.id, v2.wf)
            /\ CountId = KindOf(v2.id, v2.counter)
            /\ clock = 0
            /\ issued = << >>
            /\ last = NoResponse
            /\ proc = [w \in Workers |-> IdleProc]
            /\ Files = << >>

FixIssuedInvoiceAny == \E dry_run \in BOOLEAN : FixIssuedInvoice(dry_run)

InvoiceNext == UpdateStatusAny \/ FixIssuedInvoiceAny

InvoiceSpec == InvoiceInit /\ [][InvoiceNext]_vars

\* Whether a shipment is invoiced and its status, as the list endpoints
\* read them: a legacy order from its ShipmentOrder, then its Quotation.
IsIssued(sid) ==
    IF IsV1(sid, Quotation[sid]) /\ sid \in DOMAIN ShipmentOrder
    THEN ShipmentOrder[sid].issued_invoice \/ Quotation[sid].issued_invoice
    ELSE Quotation[sid].issued_invoice

StatusOfShipment(sid) ==
    IF IsV1(sid, Quotation[sid]) /\ sid \in DOMAIN ShipmentOrder
    THEN ResolveV1Status(ShipmentOrder[sid].status)
    ELSE Quotation[sid].status

\* C27: in every reachable state a shipment with issued_invoice = true has
\* status 5001 (Completed), whatever status updates and script runs came before.
C27_IssuedOnlyWhenCompleted ==
    \A sid \in DOMAIN Quotation : IsIssued(sid) => StatusOfShipment(sid) = STATUS_COMPLETED

\* The same for the records the migrator writes.
C27_MigratedIssuedOnlyWhenCompleted ==
    \A af \in AlreadyMigrated :
        Quotation[af].issued_invoice => Quotation[af].status = STATUS_COMPLETED

\* ------------------------------------------------------------------------
\* Properties of the status update off the path and without context (Spec)
\* ------------------------------------------------------------------------
\* t lies strictly later than s in the union order
StrictlyLater(s, t) ==
    /\ InList(s, PathA)
    /\ InList(t, PathA)
    /\ IndexOf(t, PathA) > IndexOf(s, PathA)

\* C28: with incoterm context and a current status of the union order that is
\* not on the shipment's path (3001 or 3002 on Path B), a plain update
\* (allow_jump = false, reverted = false) is accepted only if the target is -1
\* or strictly later than the current status in the union order.
C28_OffPathForwardOnly ==
    [][ last'.result = "OK" =>
        \A sid \in DOMAIN Quotation, t \in StatusInputs, c \in Callers :
          ( /\ Readable(sid)
            /\ HasContext(sid)
            /\ InList(CurrentStatus(sid), PathA)
            /\ ~InList(CurrentStatus(sid), PathOf(sid))
            /\ UpdateStatus(sid, t, FALSE, FALSE, c) )
          => (t = -1 \/ StrictlyLater(CurrentStatus(sid), t)) ]_vars

\* C29: without incoterm context and from a current status of the union
\* order, a plain update (allow_jump = false, reverted = false) is accepted
\* only if the target is -1 or strictly later than the current status in the
\* union order; a target outside the order is rejected.
C29_NoContextForwardOnly ==
    [][ last'.result = "OK" =>
        \A sid \in DOMAIN Quotation, t \in StatusInputs, c \in Callers :
          ( /\ Readable(sid)
            /\ ~HasContext(sid)
            /\ InList(CurrentStatus(sid), PathA)
            /\ UpdateStatus(sid, t, FALSE, FALSE, c) )
          => (t = -1 \/ StrictlyLater(CurrentStatus(sid), t)) ]_vars

\* The same for the targets that are codes of the union order.
C29_KnownTargetsForwardOnly ==
    [][ last'.result = "OK" =>
        \A sid \in DOMAIN Quotation, t \in StatusInputs \ {7777}, c \in Callers :
          ( /\ Readable(sid)
            /\ ~HasContext(sid)
            /\ InList(CurrentStatus(sid), PathA)
            /\ UpdateStatus(sid, t, FALSE, FALSE, c) )
          => (t = -1 \/ StrictlyLater(CurrentStatus(sid), t)) ]_vars

\* C30: for a legacy shipment with incoterm context, after an accepted plain
\* update (allow_jump = false, reverted = false) to a target on its path, the
\* current status resolved from the ShipmentOrder record is that target.
C30_StoredStatusReadBack ==
    [][ last'.result = "OK" =>
        \A sid \in DOMAIN Quotation, t \in StatusInputs, c \in Callers :
          ( /\ Readable(sid)
            /\ IsV1(sid, Quotation[sid])
            /\ HasContext(sid)
            /\ InList(t, PathOf(sid))
            /\ UpdateStatus(sid, t, FALSE, FALSE, c) )
          => ResolveV1Status(ShipmentOrder'[sid].status) = t ]_vars

\* The same for the targets that have a legacy code.
C30_MappedStatusReadBack ==
    [][ last'.result = "OK" =>
        \A sid \in DOMAIN Quotation, t \in StatusInputs \cap V2_TO_V1_KEYS, c \in Callers,
           aj \in BOOLEAN, rv \in BOOLEAN :
          ( /\ Readable(sid)
            /\ IsV1(sid, Quotation[sid])
            /\ UpdateStatus(sid, t, aj, rv, c) )
          => ResolveV1Status(ShipmentOrder'[sid].status) = t ]_vars

\* C31: for every shipment that has a workflow record, workflow.completed is
\* true exactly when the shipment's current status is 5001, after any
\* sequence of status updates, reverted ones included.
C31_CompletedIffStatusCompleted ==
    \A sid \in DOMAIN ShipmentWorkFlow :
        Readable(sid) =>
            (ShipmentWorkFlow[sid].completed <=> CurrentStatus(sid) = STATUS_COMPLETED)

\* C32: an accepted task update that changes a task's mode from IGNORED to
\* ASSIGNED or TRACKED leaves that task with visibility VISIBLE.
C32_LeavingIgnoredIsVisible ==
    [][ last'.result = "OK" =>
        \A sid \in DOMAIN ShipmentWorkFlow, c \in TaskCallers, b \in TaskBodies :
          \A tid \in RequestTaskIds(sid) :
             ( /\ b.mode \in {"ASSIGNED", "TRACKED"}
               /\ FindTask(StoredTasks(sid), tid) # 0
               /\ StoredTasks(sid)[FindTask(StoredTasks(sid), tid)].mode = "IGNORED"
               /\ UpdateTask(sid, tid, b, c) )
             => ShipmentWorkFlow'[sid].workflow_tasks[FindTask(StoredTasks(sid), tid)].visibility
                    = "VISIBLE" ]_vars

\* C33: a task update made by an AFC caller on a shipment owned by another
\* company leaves every record of that shipment (tasks, route nodes, dates,
\* files) as it was.
C33_ForeignShipmentUnchanged ==
    [][ \A sid \in DOMAIN ShipmentWorkFlow, c \in TaskCallers, b \in TaskBodies :
          \A tid \in RequestTaskIds(sid) :
             (ForeignTo(c, sid) /\ UpdateTask(sid, tid, b, c))
             => UNCHANGED <<stores, Files>> ]_vars

\* The same for a route-node save.
C33_ForeignRouteUnchanged ==
    [][ \A sid \in DOMAIN Quotation, c \in ReadCallers, nodes \in RouteNodeLists :
          (ForeignTo(c, sid) /\ SaveRouteNodes(sid, nodes, c))
          => UNCHANGED <<stores, Files>> ]_vars

\* ------------------------------------------------------------------------
\* ScopeSpec: list, stats and search for callers with and without a company
\* ------------------------------------------------------------------------
\* Claims as _build_claims returns them: company_id is None ("") when neither
\* UserIAM nor UserAccount carries one.
ScopeCallers ==
    { [uid |-> "uid-ops1", email |-> "ops1@af.example", account_type |-> "AFU",
       role |-> "AFU-ADMIN", company_id |-> ""],
      [uid |-> "uid-b1", email |-> "b1@b.example", account_type |-> "AFC",
       role |-> "AFC-M", company_id |-> "AFC-B"],
      [uid |-> "uid-n1", email |-> "n1@n.example", account_type |-> "AFC",
       role |-> "AFC-USER", company_id |-> ""] }

ScopedListAny ==
    \E tab \in ListTabs, company_id \in ListCompanyParams, claims \in ScopeCallers :
        ListShipments(tab, company_id, claims)

ScopedStatsAny ==
    \E company_id \in ListCompanyParams, claims \in ScopeCallers :
        GetShipmentStats(company_id, claims)

ScopedSearchAny ==
    \E q \in SearchQueries, search_fields \in {"id", "all"}, claims \in ScopeCallers :
        SearchShipments(q, search_fields, claims)

ScopeNext == ScopedListAny \/ ScopedStatsAny \/ ScopedSearchAny

ScopeSpec == ListInit /\ [][ScopeNext]_vars

NoCompany(claims) == claims.account_type = "AFC" /\ claims.company_id = ""

\* C34: an AFC caller whose claims carry no company_id receives no shipment
\* from list and search, and from stats the counts of an empty scope.
C34_NoCompanyEmptyScope ==
    [][ last'.result = "OK" =>
        \A c \in ScopeCallers :
          NoCompany(c) =>
            /\ \A tab \in ListTabs, company_id \in ListCompanyParams :
                 ListShipments(tab, company_id, c) => last'.data = << >>
            /\ \A q \in SearchQueries, f \in {"id", "all"} :
                 SearchShipments(q, f, c) => last'.data = << >>
            /\ \A company_id \in ListCompanyParams :
                 GetShipmentStats(company_id, c) => last'.data = << StatsOf("AFC-NONE") >> ]_vars

\* An AFC caller with a company receives only shipments of that company.
C34_CompanyScoped ==
    [][ last'.result = "OK" =>
        \A c \in ScopeCallers :
          (c.account_type = "AFC" /\ c.company_id # "") =>
            /\ \A tab \in ListTabs, company_id \in ListCompanyParams :
                 ListShipments(tab, company_id, c)
                 => \A i \in 1..Len(last'.data) : last'.data[i].company_id = c.company_id
            /\ \A q \in SearchQueries, f \in {"id", "all"} :
                 SearchShipments(q, f, c)
                 => \A i \in 1..Len(last'.data) : last'.data[i].company_id = c.company_id ]_vars

\* q_entity.get(name): << >> when the field is absent
FlatField(entity, name) == IF name \in DOMAIN entity THEN << entity[name] >> ELSE << >>

NodeOfRole(nodes, role) == nodes[CHOOSE i \in 1..Len(nodes) : nodes[i].role = role]

\* C35: for every shipment with stored route nodes, the flat etd equals the
\* ORIGIN node's scheduled_etd and the flat eta equals the DESTINATION node's
\* scheduled_eta, after any sequence of saves and timing updates.
C35_FlatDatesMirrorNodes ==
    \A sid \in DOMAIN Quotation :
        LET q == Quotation[sid]
        IN  q.route_nodes # << >> =>
               /\ FlatField(q, "etd") = NodeOfRole(q.route_nodes, "ORIGIN").scheduled_etd
               /\ FlatField(q, "eta") = NodeOfRole(q.route_nodes, "DESTINATION").scheduled_eta

\* The same right after a timing update that gives both dates of a node, for
\* the date the node's role mirrors.
C35_TimingUpdateMirrors ==
    [][ last'.result = "OK" =>
        \A sid \in DOMAIN Quotation, seq \in 0..(MaxNodes + 1), b \in TimingBodies,
           c \in ReadCallers :
          (b.scheduled_etd # << >> /\ b.scheduled_eta # << >>
           /\ UpdateRouteNodeTiming(sid, seq, b, c))
          => LET q == Quotation'[sid]
                 target == last'.data[1]
             IN  /\ target.role = "ORIGIN" => FlatField(q, "etd") = target.scheduled_etd
                 /\ target.role = "DESTINATION" => FlatField(q, "eta") = target.scheduled_eta ]_vars

\* C36: a shipment created from a BL with an initial status of the code set
\* (the default 3002 or the derived 4001) starts in a status that lies on the
\* status path of its own incoterm and transaction type.
C36_CreatedOnOwnPath ==
    [][ \A body \in CreateBodies, c \in Callers :
          (body.initial_status \in {STATUS_BOOKING_CONFIRMED, STATUS_DEPARTED}
           /\ CreateFromBL(body, c))
          => LET sid == FormatShipmentId(LastOf(issued'))
             IN  InList(Quotation'[sid].status,
                        get_status_path_list(Quotation'[sid].incoterm_code,
                                             Quotation'[sid].transaction_type)) ]_vars

\* The same for the requests whose incoterm and transaction type are on Path A.
C36_CreatedOnPathA ==
    [][ \A body \in CreateBodies, c \in Callers :
          (body.initial_status \in {STATUS_BOOKING_CONFIRMED, STATUS_DEPARTED}
           /\ get_status_path(body.incoterm_code, body.transaction_type) = "A"
           /\ CreateFromBL(body, c))
          => LET sid == FormatShipmentId(LastOf(issued'))
             IN  InList(Quotation'[sid].status,
                        get_status_path_list(Quotation'[sid].incoterm_code,
                                             Quotation'[sid].transaction_type)) ]_vars

\* ------------------------------------------------------------------------
\* CacheSpec: the in-process caches of company names and ports
\* ------------------------------------------------------------------------
\* _COMPANY_CACHE_TTL and _PORT_CACHE_TTL, in seconds
COMPANY_CACHE_TTL == 300

PORT_CACHE_TTL == 600

\* time.monotonic() moves in steps of TickSeconds up to MaxTime.
TickSeconds == 100

MaxTime == 1200

CacheCompanyIds == {"AFC-A", "AFC-B"}

\* The rows of the ports table, as _load_ports maps them
PortRows == << "MYPKG", "SGSIN" >>

\* The module state of the process: each cached value with the time it was
\* read from the store at.
CacheState(company_name_cache, company_name_cache_ts, port_cache, port_cache_ts) ==
    [ company_name_cache |-> company_name_cache,
      company_name_cache_ts |-> company_name_cache_ts,
      port_cache |-> port_cache, port_cache_ts |-> port_cache_ts ]

CacheResponse(op, at, served) == [op |-> op, at |-> at, served |-> served]

CacheInit ==
    /\ Quotation = << >>
    /\ ShipmentOrder = << >>
    /\ ShipmentWorkFlow = << >>
    /\ CountId = << >>
    /\ clock = 0
    /\ issued = << >>
    /\ last = CacheResponse("", 0, << >>)
    /\ proc = CacheState(<< >>, 0, << >>, 0)
    /\ Files = << >>

\* Time passes between two requests.
Tick ==
    /\ clock < MaxTime
    /\ clock' = clock + TickSeconds
    /\ UNCHANGED <<stores, issued, last, proc, Files>>

\* The entries a batch fetch of the missing ids reads at time now
FetchedCompanies(missing, now) ==
    [cid \in missing |-> [name |-> CompanyName(cid), read_at |-> now]]

\* _batch_company_names(client, company_ids) for a non-empty list of ids
BatchCompanyNames(company_ids) ==
    /\ company_ids # {}
    /\ LET now == clock
           cache == proc.company_name_cache
           cache_fresh == (now - proc.company_name_cache_ts) < COMPANY_CACHE_TTL
       IN  IF cache_fresh /\ company_ids \subseteq DOMAIN cache
           THEN /\ last' = CacheResponse("company_names", now,
                                         [cid \in company_ids |-> cache[cid]])
                /\ UNCHANGED proc
           ELSE LET missing == {cid \in company_ids : cid \notin DOMAIN cache \/ ~cache_fresh}
                    filled == FetchedCompanies(missing, now) @@ cache
                IN  /\ proc' = [proc EXCEPT !.company_name_cache = filled,
                                            !.company_name_cache_ts = now]
                    /\ last' = CacheResponse("company_names", now,
                                             [cid \in company_ids |-> filled[cid]])
    /\ UNCHANGED <<stores, clock, issued, Files>>

\* GET /ports
ListPorts ==
    /\ LET now == clock
       IN  IF proc.port_cache # << >> /\ (now - proc.port_cache_ts) < PORT_CACHE_TTL
           THEN /\ last' = CacheResponse("ports", now, proc.port_cache)
                /\ UNCHANGED proc
           ELSE LET loaded == [i \in 1..Len(PortRows) |->
                                 [un_code |-> PortRows[i], read_at |-> now]]
                IN  /\ proc' = [proc EXCEPT !.port_cache = loaded, !.port_cache_ts = now]
                    /\ last' = CacheResponse("ports", now, loaded)
    /\ UNCHANGED <<stores, clock, issued, Files>>

BatchCompanyNamesAny ==
    \E company_ids \in SUBSET CacheCompanyIds : BatchCompanyNames(company_ids)

CacheNext == Tick \/ BatchCompanyNamesAny \/ ListPorts

CacheSpec == CacheInit /\ [][CacheNext]_vars

\* Every port of the last response was read at most PORT_CACHE_TTL earlier.
PortsFresh ==
    last.op = "ports" =>
        \A i \in 1..Len(last.served) : last.at - last.served[i].read_at <= PORT_CACHE_TTL

\* Every company name of the last response was read at most
\* COMPANY_CACHE_TTL earlier.
CompanyNamesFresh ==
    last.op = "company_names" =>
        \A cid \in DOMAIN last.served :
            last.at - last.served[cid].read_at <= COMPANY_CACHE_TTL

\* C37: a company name served from the cache was read from the store at most
\* 300 seconds earlier and a port list at most 600 seconds earlier, whatever
\* cache hits and partial refills came before.
C37_StalenessBounded == CompanyNamesFresh /\ PortsFresh

\* The port list on its own.
C37_PortStalenessBounded == PortsFresh

\* C38: a run of the migrator started after a run with --commit has gone
\* through to its end passes the collision check: it does not end aborted
\* (exit status 1).
C38_RerunPassesCollisionCheck ==
    [][ (proc.pc = "idle" /\ proc.committed >= 1 /\ proc'.runs = proc.runs + 1)
        => proc'.ended # "aborted" ]_vars

\* The first run, on the legacy records alone, passes the collision check.
C38_FirstRunPassesCollisionCheck ==
    [][ (proc.pc = "idle" /\ proc.runs = 0 /\ proc'.runs = 1)
        => proc'.ended # "aborted" ]_vars

\* ------------------------------------------------------------------------
\* BackfillSpec: scripts/backfill_issued_invoice.py
\* ------------------------------------------------------------------------
MaxBackfillRuns == 2

\* The values issued_invoice holds on legacy records: missing (None), a bool,
\* an int 0 or 1, or an empty list.
PyNone == [t |-> "none", v |-> 0]

PyBool(b) == [t |-> "bool", v |-> IF b THEN 1 ELSE 0]

PyInt(n) == [t |-> "int", v |-> n]

PyEmptyList == [t |-> "list", v |-> 0]

IssuedValues == {PyNone, PyBool(FALSE), PyBool(TRUE), PyInt(0), PyInt(1), PyEmptyList}

\* bool(x)
PyTruth(x) == x.t \in {"bool", "int"} /\ x.v # 0

\* x != b for a bool b: an int equals the bool of the same number, None and
\* a list equal no bool
PyNotEqualBool(x, b) ==
    IF x.t \in {"bool", "int"} THEN x.v # (IF b THEN 1 ELSE 0) ELSE TRUE

BackfillEntity(status, data_version, issued_invoice) ==
    [status |-> status, data_version |-> data_version, issued_invoice |-> issued_invoice]

\* The ShipmentOrder records the script processes: status >= 10000 fetched,
\* then AFCQ- prefix, not data_version 2, status 10000 or 5001
V1Completed ==
    {k \in DOMAIN ShipmentOrder :
        /\ ShipmentOrder[k].status >= 10000
        /\ k.prefix = PREFIX_V1_SHIPMENT
        /\ ShipmentOrder[k].data_version # 2
        /\ ShipmentOrder[k].status \in {10000, STATUS_COMPLETED}}

\* final_value = issued_so or issued_q
FinalValue(k) ==
    PyTruth(ShipmentOrder[k].issued_invoice)
    \/ (k \in DOMAIN Quotation /\ PyTruth(Quotation[k].issued_invoice))

SoNeedsWrite(k) == PyNotEqualBool(ShipmentOrder[k].issued_invoice, FinalValue(k))

QNeedsWrite(k) ==
    k \in DOMAIN Quotation /\ PyNotEqualBool(Quotation[k].issued_invoice, FinalValue(k))

BackfillJob(runs, committed, count_to_write, before) ==
    [runs |-> runs, committed |-> committed, count_to_write |-> count_to_write,
     before |-> before]

\* python -m scripts.backfill_issued_invoice [--commit]: the whole run
RunBackfill(commit) ==
    /\ proc.runs < MaxBackfillRuns
    /\ LET to_write == {k \in V1Completed : SoNeedsWrite(k) \/ QNeedsWrite(k)}
       IN  /\ ShipmentOrder' =
                IF ~commit THEN ShipmentOrder
                ELSE [k \in DOMAIN ShipmentOrder |->
                        IF k \in V1Completed /\ SoNeedsWrite(k)
                        THEN [ShipmentOrder[k] EXCEPT !.issued_invoice = PyBool(FinalValue(k))]
                        ELSE ShipmentOrder[k]]
           /\ Quotation' =
                IF ~commit THEN Quotation
                ELSE [k \in DOMAIN Quotation |->
                        IF k \in V1Completed /\ QNeedsWrite(k)
                        THEN [Quotation[k] EXCEPT !.issued_invoice = PyBool(FinalValue(k))]
                        ELSE Quotation[k]]
           /\ proc' = BackfillJob(
                        proc.runs + 1,
                        proc.committed + (IF commit THEN 1 ELSE 0),
                        Cardinality(to_write),
                        IF commit /\ proc.committed = 0
                        THEN [k \in V1Completed |-> FinalValue(k)]
                        ELSE proc.before)
    /\ UNCHANGED <<ShipmentWorkFlow, CountId, clock, issued, last, Files>>

\* The legacy records: AFCQ-1 completed with its Quotation, AFCQ-2 completed
\* without one, AFCQ-3 departed, and the migrated AF-4.
BackfillInit ==
    \E so1 \in IssuedValues, q1 \in IssuedValues, so2 \in {PyNone, PyInt(1)},
       q3 \in {PyBool(FALSE), PyBool(TRUE)} :
        /\ ShipmentOrder =
             (ShipmentId("AFCQ-", 1) :> BackfillEntity(10000, 1, so1))
             @@ (ShipmentId("AFCQ-", 2) :> BackfillEntity(10000, 0, so2))
             @@ (ShipmentId("AFCQ-", 3) :> BackfillEntity(4110, 1, PyNone))
             @@ (ShipmentId("AF-", 4) :> BackfillEntity(10000, 2, PyNone))
        /\ Quotation =
             (ShipmentId("AFCQ-", 1) :> BackfillEntity(1, 0, q1))
             @@ (ShipmentId("AFCQ-", 3) :> BackfillEntity(1, 0, q3))
        /\ ShipmentWorkFlow = << >>
        /\ CountId = << >>
        /\ clock = 0
        /\ issued = << >>
        /\ last = NoResponse
        /\ proc = BackfillJob(0, 0, 0, << >>)
        /\ Files = << >>

BackfillNext == \E commit \in BOOLEAN : RunBackfill(commit)

BackfillSpec == BackfillInit /\ [][BackfillNext]_vars

\* C39: after a run with --commit every processed record that has both
\* records holds the same boolean on its ShipmentOrder and on its Quotation,
\* the OR of the two values held before the run, and a second run with
\* --commit finds nothing to write.
C39_BackfillMerges ==
    /\ proc.committed >= 1 =>
         \A k \in DOMAIN proc.before :
            k \in DOMAIN Quotation =>
               /\ ShipmentOrder[k].issued_invoice = PyBool(proc.before[k])
               /\ Quotation[k].issued_invoice = PyBool(proc.before[k])
    /\ proc.committed >= 2 => proc.count_to_write = 0

\* After a run with --commit the two records agree as truth values with the
\* OR of the values held before, and a second run finds nothing to write.
C39_BackfillAgreesInTruth ==
    /\ proc.committed >= 1 =>
         \A k \in DOMAIN proc.before :
            /\ PyTruth(ShipmentOrder[k].issued_invoice) = proc.before[k]
            /\ k \in DOMAIN Quotation => PyTruth(Quotation[k].issued_invoice) = proc.before[k]
    /\ proc.committed >= 2 => proc.count_to_write = 0

\* ------------------------------------------------------------------------
\* RemapSpec: scripts/remap_status_codes.py
\* ------------------------------------------------------------------------
MaxRemapRuns == 3

OLD_EXCEPTION_STATUS == 4002

FALLBACK_STATUS_FOR_EXCEPTION == 4001

\* core/constants.py OLD_TO_NEW_STATUS
OLD_TO_NEW_STATUS ==
    (1001 :> 1001) @@ (1002 :> 1002) @@ (2001 :> 2001) @@ (2002 :> 3001)
    @@ (3001 :> 3002) @@ (3002 :> 4001) @@ (3003 :> 4002) @@ (4001 :> 4001)
    @@ (5001 :> 5001) @@ (-1 :> -1)

\* A record as the script reads it: status, the exception block (absent or
\* present) and the updated stamp; data_version selects it for the query.
RemapEntity(data_version, status) ==
    [ data_version |-> data_version, status |-> status,
      exception |-> << >>, updated |-> 0 ]

RemapHistoryEntry(status) ==
    [ status |-> status, status_label |-> StatusLabel(status) ]

\* Phases 1 and 2: one record of the Quotation or ShipmentOrder Kind
RemapEntityStatus(entity, now) ==
    IF entity.data_version # 2 THEN entity
    ELSE IF entity.status = OLD_EXCEPTION_STATUS
    THEN [ entity EXCEPT
             !.status = FALLBACK_STATUS_FOR_EXCEPTION,
             !.exception = << [ flagged |-> TRUE, raised_at |-> now,
                                raised_by |-> "migration",
                                notes |-> "Migrated from Exception status" ] >>,
             !.updated = now ]
    ELSE IF entity.status \in DOMAIN OLD_TO_NEW_STATUS
            /\ OLD_TO_NEW_STATUS[entity.status] # entity.status
    THEN [ entity EXCEPT !.status = OLD_TO_NEW_STATUS[entity.status],
                         !.updated = now ]
    ELSE entity

\* Phase 3: one status_history entry
RemapHistoryStatus(entry) ==
    IF entry.status # 0 /\ entry.status \in DOMAIN OLD_TO_NEW_STATUS
       /\ OLD_TO_NEW_STATUS[entry.status] # entry.status
    THEN [ entry EXCEPT
             !.status = OLD_TO_NEW_STATUS[entry.status],
             !.status_label = StatusLabel(OLD_TO_NEW_STATUS[entry.status]) ]
    ELSE IF entry.status = OLD_EXCEPTION_STATUS
    THEN [ entry EXCEPT
             !.status = FALLBACK_STATUS_FOR_EXCEPTION,
             !.status_label = StatusLabel(FALLBACK_STATUS_FOR_EXCEPTION) ]
    ELSE entry

RemapWorkflow(entity, now) ==
    LET history == [ i \in DOMAIN entity.status_history |->
                       RemapHistoryStatus(entity.status_history[i]) ]
    IN  IF history = entity.status_history THEN entity
        ELSE [ entity EXCEPT !.status_history = history, !.updated = now ]

\* What the claim compares: shipment status, exception flag and the entries
\* of each workflow's status_history
RemapRecordView(entity) ==
    [ status |-> entity.status,
      flagged |-> entity.exception # << >> /\ entity.exception[1].flagged ]

RemapView ==
    [ Quotation |-> [ k \in DOMAIN Quotation |-> RemapRecordView(Quotation[k]) ],
      ShipmentOrder |->
          [ k \in DOMAIN ShipmentOrder |-> RemapRecordView(ShipmentOrder[k]) ],
      ShipmentWorkFlow |->
          [ k \in DOMAIN ShipmentWorkFlow |-> ShipmentWorkFlow[k].status_history ] ]

RemapJob(runs, live, first, initial) ==
    [ runs |-> runs, live |-> live, first |-> first, initial |-> initial ]

\* remap_records(dry_run): one run of the script
RemapRecords(dry_run) ==
    /\ proc.runs < MaxRemapRuns
    /\ LET now == clock + 1
       IN  /\ clock' = now
           /\ IF dry_run
              THEN /\ UNCHANGED stores
                   /\ proc' = [ proc EXCEPT !.runs = @ + 1 ]
              ELSE /\ Quotation' =
                        [ k \in DOMAIN Quotation |->
                            RemapEntityStatus(Quotation[k], now) ]
                   /\ ShipmentOrder' =
                        [ k \in DOMAIN ShipmentOrder |->
                            RemapEntityStatus(ShipmentOrder[k], now) ]
                   /\ ShipmentWorkFlow' =
                        [ k \in DOMAIN ShipmentWorkFlow |->
                            RemapWorkflow(ShipmentWorkFlow[k], now) ]
                   /\ UNCHANGED CountId
                   /\ proc' = [ proc EXCEPT
                                  !.runs = @ + 1,
                                  !.live = @ + 1,
                                  !.first = IF proc.live = 0
                                            THEN << RemapView' >> ELSE @ ]
    /\ UNCHANGED <<issued, last, Files>>

\* Status codes of the old scheme and of the new one, and one code neither
\* scheme knows
RemapStatuses == {1001, 2001, 2002, 3001, 3002, 3003, 4001, 4002, 5001, -1, 9999}

RemapInit ==
    \E s1 \in RemapStatuses, s2 \in RemapStatuses,
       h1 \in {2002, 3003, 4002, 5001}, h2 \in {1001, 3001} :
        /\ Quotation =
             (ShipmentId("AF-", 1) :> RemapEntity(2, s1))
             @@ (ShipmentId("AFCQ-", 3) :> RemapEntity(0, 2002))
        /\ ShipmentOrder =
             (ShipmentId("AFCQ-", 2) :> RemapEntity(2, s2))
             @@ (ShipmentId("AFCQ-", 3) :> RemapEntity(1, 3001))
        /\ ShipmentWorkFlow =
             (ShipmentId("AF-", 1) :>
                [ status_history |-> << RemapHistoryEntry(h2), RemapHistoryEntry(h1) >>,
                  updated |-> 0 ])
        /\ CountId = << >>
        /\ clock = 0
        /\ issued = << >>
        /\ last = NoResponse
        /\ proc = RemapJob(0, 0, << >>, << RemapView >>)
        /\ Files = << >>

RemapNext == \E dry_run \in BOOLEAN : RemapRecords(dry_run)

RemapSpec == RemapInit /\ [][RemapNext]_vars

\* C40: after two or more runs with --live every record (shipment status,
\* exception flag, each workflow status_history entry) is exactly as the
\* first --live run left it.
C40_SecondLiveRunChangesNothing ==
    proc.live >= 2 => RemapView = proc.first[1]

\* The part that holds: a record whose code is one the mapping sends to
\* itself, and is not the old exception code, is left alone by every run.
RemapFixedStatuses ==
    { s \in DOMAIN OLD_TO_NEW_STATUS : OLD_TO_NEW_STATUS[s] = s } \ {OLD_EXCEPTION_STATUS}

C40_FixedCodesUntouched ==
    \A k \in DOMAIN Quotation :
        proc.initial[1].Quotation[k].status \in RemapFixedStatuses
            => RemapRecordView(Quotation[k]) = proc.initial[1].Quotation[k]

\* A dry run writes nothing.
C40_DryRunWritesNothing ==
    [][ proc'.live = proc.live => stores' = stores ]_vars
====
